---- MODULE Spec2Model ----
(***************************************************************************)
(* PhishPolice backend: the typosquat detector (utils/typosquat_scanner.py)*)
(* and the risk scorer / verdict of app.py, the certificate-transparency   *)
(* monitor (utils/ct_monitor.py) and the /api/analyze request handler with *)
(* its collectors and the LLM retry loop, as state machines; the quick     *)
(* domain checks (utils/domain_checks.py) and the pure functions, called   *)
(* on their own and repeatedly, are a further specification.               *)
(*                                                                         *)
(* Python strings are tuples of one-character strings, so that indexing,   *)
(* split, replace, endswith and lower are computed as the code computes    *)
(* them.  Scores are integers in thousandths (0.35 is 350), so that the    *)
(* two-decimal rounding of calculate_risk_score is a real conversion.      *)
(***************************************************************************)
EXTENDS Integers, Sequences, FiniteSets, TLC

(***************************************************************************)
(* Python built-ins used by the code                                       *)
(***************************************************************************)
Min2(a, b) == IF a <= b THEN a ELSE b

Max2(a, b) == IF a >= b THEN a ELSE b

Min3(a, b, c) == Min2(a, Min2(b, c))

\* A Python value: its type name and its text (the characters of a str, the
\* digits of an int, the elements of a list; None has no text).
PyStr(chars) == [type |-> "str", val |-> chars]

PyNone == [type |-> "NoneType", val |-> <<>>]

PyInt(digits) == [type |-> "int", val |-> digits]

PyList(elems) == [type |-> "list", val |-> elems]

\* bool(v): None, "", 0 and [] are falsy, everything else is truthy.
Truthy(v) ==
  CASE v.type = "NoneType" -> FALSE
    [] v.type = "int" -> v.val # <<"0">>
    [] OTHER -> v.val # <<>>

\* None where the code stores None in a field that otherwise holds a str.
None == <<"None">>

UpperToLower ==
  ("A" :> "a") @@ ("B" :> "b") @@ ("C" :> "c") @@ ("D" :> "d") @@ ("E" :> "e") @@ ("F" :> "f") @@ ("G" :> "g") @@ ("H" :> "h") @@ ("I" :> "i") @@ ("J" :> "j") @@ ("K" :> "k") @@ ("L" :> "l") @@ ("M" :> "m") @@ ("N" :> "n") @@ ("O" :> "o") @@ ("P" :> "p") @@ ("Q" :> "q") @@ ("R" :> "r") @@ ("S" :> "s") @@ ("T" :> "t") @@ ("U" :> "u") @@ ("V" :> "v") @@ ("W" :> "w") @@ ("X" :> "x") @@ ("Y" :> "y") @@ ("Z" :> "z")


\* str.lower(), character by character.
Lower(s) ==
  [i \in 1..Len(s) |-> IF s[i] \in DOMAIN UpperToLower THEN UpperToLower[s[i]] ELSE s[i]]

\* s.startswith(p)
StartsWith(s, p) == Len(s) >= Len(p) /\ SubSeq(s, 1, Len(p)) = p

\* s.endswith(p)
EndsWith(s, p) == Len(s) >= Len(p) /\ SubSeq(s, Len(s) - Len(p) + 1, Len(s)) = p

\* s.split("."): the parts between the dots, empty parts kept.  The k-th part
\* lies between the (k-1)-th and the k-th dot, the ends of s standing for the
\* dots before the first and after the last part.
Split(s) ==
  LET dots == {i \in 1..Len(s) : s[i] = "."}
      n == Cardinality(dots) + 1
      DotAt(k) == IF k = 0 THEN 0
                  ELSE IF k = n THEN Len(s) + 1
                  ELSE CHOOSE i \in dots : Cardinality({j \in dots : j < i}) = k - 1
  IN [k \in 1..n |-> SubSeq(s, DotAt(k - 1) + 1, DotAt(k) - 1)]

\* s.replace(old, new): non-overlapping occurrences of old, left to right.
RECURSIVE ReplaceFrom(_, _, _, _, _)
ReplaceFrom(s, i, old, new, acc) ==
  IF i > Len(s) THEN acc
  ELSE LET found == i + Len(old) - 1 <= Len(s) /\ SubSeq(s, i, i + Len(old) - 1) = old
           extended == IF found THEN acc \o new ELSE Append(acc, s[i])
       IN \* the test is always true: it makes TLC compute the text built so far before going on
          IF Len(extended) >= 0
          THEN ReplaceFrom(s, IF found THEN i + Len(old) ELSE i + 1, old, new, extended)
          ELSE extended

Replace(s, old, new) == ReplaceFrom(s, 1, old, new, <<>>)

\* round(n / d) for n >= 0, d > 0: Python 3 rounds a tie to the even neighbour.
RoundHalfEven(n, d) ==
  LET q == n \div d
      r == n % d
  IN IF 2 * r < d THEN q
     ELSE IF 2 * r > d THEN q + 1
     ELSE IF q % 2 = 0 THEN q ELSE q + 1

(***************************************************************************)
(* utils/typosquat_scanner.py                                              *)
(***************************************************************************)
POPULAR_BRANDS ==
  << [brand |-> <<"g","o","o","g","l","e">>,
      legit_domains |-> << <<"g","o","o","g","l","e",".","c","o","m">>, <<"g","m","a","i","l",".","c","o","m">>, <<"y","o","u","t","u","b","e",".","c","o","m">> >>],
     [brand |-> <<"m","i","c","r","o","s","o","f","t">>,
      legit_domains |-> << <<"m","i","c","r","o","s","o","f","t",".","c","o","m">>, <<"o","u","t","l","o","o","k",".","c","o","m">>, <<"l","i","v","e",".","c","o","m">>, <<"o","f","f","i","c","e",".","c","o","m">> >>],
     [brand |-> <<"a","p","p","l","e">>,
      legit_domains |-> << <<"a","p","p","l","e",".","c","o","m">>, <<"i","c","l","o","u","d",".","c","o","m">> >>],
     [brand |-> <<"a","m","a","z","o","n">>,
      legit_domains |-> << <<"a","m","a","z","o","n",".","c","o","m">>, <<"a","w","s",".","a","m","a","z","o","n",".","c","o","m">> >>],
     [brand |-> <<"f","a","c","e","b","o","o","k">>,
      legit_domains |-> << <<"f","a","c","e","b","o","o","k",".","c","o","m">>, <<"f","b",".","c","o","m">>, <<"m","e","t","a",".","c","o","m">> >>],
     [brand |-> <<"i","n","s","t","a","g","r","a","m">>,
      legit_domains |-> << <<"i","n","s","t","a","g","r","a","m",".","c","o","m">> >>],
     [brand |-> <<"t","w","i","t","t","e","r">>,
      legit_domains |-> << <<"t","w","i","t","t","e","r",".","c","o","m">>, <<"x",".","c","o","m">> >>],
     [brand |-> <<"l","i","n","k","e","d","i","n">>,
      legit_domains |-> << <<"l","i","n","k","e","d","i","n",".","c","o","m">> >>],
     [brand |-> <<"n","e","t","f","l","i","x">>,
      legit_domains |-> << <<"n","e","t","f","l","i","x",".","c","o","m">> >>],
     [brand |-> <<"s","p","o","t","i","f","y">>,
      legit_domains |-> << <<"s","p","o","t","i","f","y",".","c","o","m">> >>],
     [brand |-> <<"d","i","s","c","o","r","d">>,
      legit_domains |-> << <<"d","i","s","c","o","r","d",".","c","o","m">>, <<"d","i","s","c","o","r","d",".","g","g">> >>],
     [brand |-> <<"g","i","t","h","u","b">>,
      legit_domains |-> << <<"g","i","t","h","u","b",".","c","o","m">> >>],
     [brand |-> <<"d","r","o","p","b","o","x">>,
      legit_domains |-> << <<"d","r","o","p","b","o","x",".","c","o","m">> >>],
     [brand |-> <<"p","a","y","p","a","l">>,
      legit_domains |-> << <<"p","a","y","p","a","l",".","c","o","m">> >>],
     [brand |-> <<"c","h","a","s","e">>,
      legit_domains |-> << <<"c","h","a","s","e",".","c","o","m">> >>],
     [brand |-> <<"b","a","n","k","o","f","a","m","e","r","i","c","a">>,
      legit_domains |-> << <<"b","a","n","k","o","f","a","m","e","r","i","c","a",".","c","o","m">>, <<"b","o","f","a",".","c","o","m">> >>],
     [brand |-> <<"w","e","l","l","s","f","a","r","g","o">>,
      legit_domains |-> << <<"w","e","l","l","s","f","a","r","g","o",".","c","o","m">> >>],
     [brand |-> <<"c","i","t","i","b","a","n","k">>,
      legit_domains |-> << <<"c","i","t","i",".","c","o","m">>, <<"c","i","t","i","b","a","n","k",".","c","o","m">> >>],
     [brand |-> <<"v","e","n","m","o">>,
      legit_domains |-> << <<"v","e","n","m","o",".","c","o","m">> >>],
     [brand |-> <<"s","t","r","i","p","e">>,
      legit_domains |-> << <<"s","t","r","i","p","e",".","c","o","m">> >>],
     [brand |-> <<"c","o","i","n","b","a","s","e">>,
      legit_domains |-> << <<"c","o","i","n","b","a","s","e",".","c","o","m">> >>],
     [brand |-> <<"b","i","n","a","n","c","e">>,
      legit_domains |-> << <<"b","i","n","a","n","c","e",".","c","o","m">> >>],
     [brand |-> <<"f","e","d","e","x">>,
      legit_domains |-> << <<"f","e","d","e","x",".","c","o","m">> >>],
     [brand |-> <<"u","p","s">>,
      legit_domains |-> << <<"u","p","s",".","c","o","m">> >>],
     [brand |-> <<"u","s","p","s">>,
      legit_domains |-> << <<"u","s","p","s",".","c","o","m">> >>],
     [brand |-> <<"d","h","l">>,
      legit_domains |-> << <<"d","h","l",".","c","o","m">> >>],
     [brand |-> <<"w","a","l","m","a","r","t">>,
      legit_domains |-> << <<"w","a","l","m","a","r","t",".","c","o","m">> >>],
     [brand |-> <<"e","b","a","y">>,
      legit_domains |-> << <<"e","b","a","y",".","c","o","m">> >>],
     [brand |-> <<"a","d","o","b","e">>,
      legit_domains |-> << <<"a","d","o","b","e",".","c","o","m">> >>],
     [brand |-> <<"z","o","o","m">>,
      legit_domains |-> << <<"z","o","o","m",".","u","s">> >>] >>

TYPO_PATTERNS ==
  [letter_swap |-> << <<<<"a">>, <<"4">>>>,
                     <<<<"a">>, <<"@">>>>,
                     <<<<"a">>, <<"e">>>>,
                     <<<<"e">>, <<"3">>>>,
                     <<<<"e">>, <<"i">>>>,
                     <<<<"i">>, <<"1">>>>,
                     <<<<"i">>, <<"l">>>>,
                     <<<<"i">>, <<"!">>>>,
                     <<<<"l">>, <<"1">>>>,
                     <<<<"l">>, <<"i">>>>,
                     <<<<"l">>, <<"|">>>>,
                     <<<<"o">>, <<"0">>>>,
                     <<<<"o">>, <<"u">>>>,
                     <<<<"s">>, <<"5">>>>,
                     <<<<"s">>, <<"$">>>>,
                     <<<<"g">>, <<"9">>>>,
                     <<<<"g">>, <<"q">>>>,
                     <<<<"b">>, <<"8">>>>,
                     <<<<"t">>, <<"7">>>>,
                     <<<<"z">>, <<"2">>>> >>,
   homoglyphs |-> << <<<<"r","n">>, <<"m">>>>, <<<<"v","v">>, <<"w">>>>, <<<<"c","l">>, <<"d">>>>, <<<<"n","n">>, <<"m">>>> >>]

\* The inner loop with a substitution charged for equal characters as well.
RECURSIVE LevRow_EqualCharged(_, _, _, _, _)
LevRow_EqualCharged(previous_row, c1, s2, j, current_row) ==
  IF j > Len(s2) THEN current_row
  ELSE LET insertions == previous_row[j + 1] + 1
           deletions == current_row[j] + 1
           substitutions == previous_row[j] + 1
           appended == Append(current_row, Min3(insertions, deletions, substitutions))
       IN IF Len(appended) = j + 1
          THEN LevRow_EqualCharged(previous_row, c1, s2, j + 1, appended)
          ELSE appended

\* The inner loop of calculate_levenshtein: current_row grows by one cell per
\* character of s2 (j is the 1-based position in s2).
RECURSIVE LevRow(_, _, _, _, _)
LevRow(previous_row, c1, s2, j, current_row) ==
  IF j > Len(s2) THEN current_row
  ELSE LET insertions == previous_row[j + 1] + 1
           deletions == current_row[j] + 1
           substitutions == previous_row[j] + (IF c1 # s2[j] THEN 1 ELSE 0)
           appended == Append(current_row, Min3(insertions, deletions, substitutions))
       IN \* the test is always true: it makes TLC compute the row built so
          \* far before the next iteration reads it
          IF Len(appended) = j + 1 THEN LevRow(previous_row, c1, s2, j + 1, appended)
          ELSE appended

\* The outer loop: one row per character of s1 (i is the 1-based position).
RECURSIVE LevRows(_, _, _, _)
LevRows(s1, s2, i, previous_row) ==
  IF i > Len(s1) THEN previous_row
  ELSE LET current_row == LevRow(previous_row, s1[i], s2, 1, <<i>>)
       IN IF Len(current_row) = Len(s2) + 1 THEN LevRows(s1, s2, i + 1, current_row)
          ELSE current_row

calculate_levenshtein(s1, s2) ==
  LET a == IF Len(s1) < Len(s2) THEN s2 ELSE s1
      b == IF Len(s1) < Len(s2) THEN s1 ELSE s2
  IN IF Len(b) = 0 THEN Len(a)
     ELSE LET last == LevRows(a, b, 1, [k \in 1..(Len(b) + 1) |-> k - 1])
          IN last[Len(last)]

normalize_domain(domain) ==
  LET stripped == IF StartsWith(domain, <<"w","w","w",".">>)
                  THEN SubSeq(domain, 5, Len(domain)) ELSE domain
      parts == Split(stripped)
  IN IF Len(parts) >= 2 THEN Lower(parts[Len(parts) - 1]) ELSE Lower(stripped)

\* The normalisation loops of check_letter_substitution and check_homoglyphs:
\* each pattern <<target, source>> in turn replaces source by target.
RECURSIVE ApplyPatterns(_, _, _)
ApplyPatterns(s, patterns, k) ==
  IF k > Len(patterns) THEN s
  ELSE LET replaced == Replace(s, patterns[k][2], patterns[k][1])
       IN \* the test is always true: it makes TLC compute this replacement before the next one reads it
          IF Len(replaced) >= 0 THEN ApplyPatterns(replaced, patterns, k + 1)
          ELSE replaced

check_letter_substitution(domain, brand) ==
  LET normalized == ApplyPatterns(Lower(domain), TYPO_PATTERNS.letter_swap, 1)
  IN calculate_levenshtein(normalized, brand) <= 1 /\ normalized # domain

\* homoglyph pairs are <<fake, real>>: fake is replaced by real.
RECURSIVE ApplyHomoglyphs(_, _, _)
ApplyHomoglyphs(s, patterns, k) ==
  IF k > Len(patterns) THEN s
  ELSE LET replaced == Replace(s, patterns[k][1], patterns[k][2])
       IN IF Len(replaced) >= 0 THEN ApplyHomoglyphs(replaced, patterns, k + 1)
          ELSE replaced

\* check_homoglyphs with every pair applied backwards: real replaced by fake.
RECURSIVE ApplyHomoglyphsBackwards(_, _, _)
ApplyHomoglyphsBackwards(s, patterns, k) ==
  IF k > Len(patterns) THEN s
  ELSE LET replaced == Replace(s, patterns[k][2], patterns[k][1])
       IN IF Len(replaced) >= 0 THEN ApplyHomoglyphsBackwards(replaced, patterns, k + 1)
          ELSE replaced

check_homoglyphs_Backwards(domain, brand) ==
  LET normalized == ApplyHomoglyphsBackwards(Lower(domain), TYPO_PATTERNS.homoglyphs, 1)
  IN calculate_levenshtein(normalized, brand) <= 1 /\ normalized # domain

check_homoglyphs(domain, brand) ==
  LET normalized == ApplyHomoglyphs(Lower(domain), TYPO_PATTERNS.homoglyphs, 1)
  IN calculate_levenshtein(normalized, brand) <= 1 /\ normalized # domain

\* sum(1 for a, b in zip(domain, brand) if a != b)
CountDiffs(domain, brand) ==
  Cardinality({i \in 1..Min2(Len(domain), Len(brand)) : domain[i] # brand[i]})

detect_technique(domain, brand) ==
  IF Len(domain) # Len(brand)
  THEN IF Len(domain) > Len(brand) THEN "character_insertion" ELSE "character_omission"
  ELSE LET diffs == CountDiffs(domain, brand)
       IN IF diffs = 1 THEN "character_swap"
          ELSE IF diffs = 2
               THEN IF \E i \in 1..(Len(domain) - 1) :
                         domain[i] = brand[i + 1] /\ domain[i + 1] = brand[i]
                    THEN "adjacent_swap" ELSE "character_substitution"
               ELSE "multiple_changes"

\* result as constructed at lines 112-118.
ZeroResult ==
  [is_typosquat |-> FALSE, suspected_brand |-> None, similarity_score |-> 0,
   technique |-> "None", details |-> <<>>]

\* any(hostname.endswith(d) or hostname == d for d in legit_domains)
IsLegitimate(hostname, legit_domains) ==
  \E k \in 1..Len(legit_domains) :
     EndsWith(hostname, legit_domains[k]) \/ hostname = legit_domains[k]

\* similarity >= 0.75 with similarity = 1 - distance / longest: the quotient
\* is at most 0.25 exactly when 4 * distance <= longest.
SimilarEnough(distance, longest) == 4 * distance <= longest

\* round(100 * distance / longest): the share of the edits, not of the
\* characters kept.
SimilarityPercent_OfEdits(distance, longest) == RoundHalfEven(100 * distance, longest)

\* round(similarity * 100)
SimilarityPercent(distance, longest) == RoundHalfEven(100 * (longest - distance), longest)

\* One iteration of the brand loop (lines 128-168): which return statement it
\* reaches, if any ("none": the loop goes on), and the result as it then is.
brand_iteration(hostname, domain_name, entry, result) ==
  LET brand == entry.brand
      distance == calculate_levenshtein(domain_name, brand)
      longest == Max2(Len(domain_name), Len(brand))
  IN IF IsLegitimate(hostname, entry.legit_domains)
     THEN [via |-> "legitimate",
           result |-> [result EXCEPT !.details =
                          Append(@, [note |-> "legitimate", brand |-> brand])]]
     ELSE IF SimilarEnough(distance, longest) /\ domain_name # brand
     THEN [via |-> "edit_distance",
           result |-> [result EXCEPT
                          !.is_typosquat = TRUE,
                          !.suspected_brand = brand,
                          !.similarity_score = SimilarityPercent(distance, longest),
                          !.technique = detect_technique(domain_name, brand),
                          !.details = Append(@, [note |-> "similar", brand |-> brand])]]
     ELSE IF check_letter_substitution(domain_name, brand)
     THEN [via |-> "letter_substitution",
           result |-> [result EXCEPT
                          !.is_typosquat = TRUE,
                          !.suspected_brand = brand,
                          !.similarity_score = 95,
                          !.technique = "letter_substitution",
                          !.details = Append(@, [note |-> "substitution", brand |-> brand])]]
     ELSE IF check_homoglyphs(domain_name, brand)
     THEN [via |-> "homoglyph",
           result |-> [result EXCEPT
                          !.is_typosquat = TRUE,
                          !.suspected_brand = brand,
                          !.similarity_score = 90,
                          !.technique = "homoglyph",
                          !.details = Append(@, [note |-> "lookalike", brand |-> brand])]]
     ELSE [via |-> "none", result |-> result]

\* The brand loop with the return statements of the three detections missing:
\* only the legitimate-domain return is left.
LoopReturns_OnlyLegitimate(via) == via = "legitimate"

\* Whether an iteration of the brand loop ends in a return statement (lines
\* 131, 146, 157, 168).
LoopReturns(via) == via # "none"

\* The loop of line 127 over a corpus.  An iteration that does not return
\* leaves result as it found it, so the loop ends in the first iteration that
\* returns, or at line 170 when none does.
scan_brands(corpus, hostname, domain_name, result) ==
  LET returning == {i \in 1..Len(corpus) :
                      LoopReturns(brand_iteration(hostname, domain_name, corpus[i], result).via)}
  IN IF returning = {} THEN result
     ELSE LET first == CHOOSE i \in returning : \A k \in returning : i <= k
          IN brand_iteration(hostname, domain_name, corpus[first], result).result

\* detect_typosquatting over a given corpus.  The outcome is the returned
\* result, or the exception raised: normalize_domain calls
\* hostname.startswith, which only a str has.
detect_in(corpus, hostname) ==
  IF ~Truthy(hostname) THEN [raised |-> "None", result |-> ZeroResult]
  ELSE IF hostname.type # "str" THEN [raised |-> "AttributeError", result |-> ZeroResult]
  ELSE [raised |-> "None",
        result |-> scan_brands(corpus, hostname.val, normalize_domain(hostname.val), ZeroResult)]

detect_typosquatting(hostname) == detect_in(POPULAR_BRANDS, hostname)

\* get_typosquat_risk_score: 0.35 for a typosquat, else 0 (in thousandths).
get_typosquat_risk_score(hostname) ==
  IF detect_typosquatting(hostname).result.is_typosquat THEN 350 ELSE 0

(***************************************************************************)
(* Hostnames given to the detector                                         *)
(***************************************************************************)
\* Every legitimate domain of the corpus.
LegitDomains ==
  UNION {{POPULAR_BRANDS[i].legit_domains[k] : k \in 1..Len(POPULAR_BRANDS[i].legit_domains)} :
           i \in 1..Len(POPULAR_BRANDS)}

\* A legitimate domain itself, and a subdomain of it.
LegitHostnames == LegitDomains \cup {<<"a","c","c","o","u","n","t","s",".">> \o d : d \in LegitDomains}

\* Look-alike and unrelated hostnames, among them the examples of the
\* module docstring (paypa1.com, arnazon.com).
OtherHostnames ==
  { <<"p","a","y","p","a","1",".","c","o","m">>,
    <<"a","r","n","a","z","o","n",".","c","o","m">>,
    <<"g","0","0","g","l","e",".","c","o","m">>,
    <<"g","o","o","g","e",".","c","o","m">>,
    <<"u","p","5",".","c","o","m">>,
    <<"G","o","o","g","l","e",".","c","o","m">>,
    <<"u","s","p","s",".","x","y","z">>,
    <<"a","m","a","z","o","m",".","c","o","m">>,
    <<"s","e","c","u","r","e","-","l","o","g","i","n",".","p","a","y","p","a","l","-","v","e","r","i","f","y",".","t","k">>,
    <<"p","a","y","p","a","l",".","c","o",".","u","k">>,
    <<"e","x","a","m","p","l","e",".","c","o","m">>,
    <<"a","r","n","a","z","o","n","-","l","o","g","i","n",".","c","o","m">>,
    <<"w","w","w",".","t","w","i","t","e","r",".","c","o","m">>,
    <<"l","i","n","k","d","e","i","n",".","c","o","m">>,
    <<"n","e","t","f","l","1","x",".","c","o","m">>,
    <<"g","o","o","g","l","e",".","x","y","z">> }

\* A bare dot and single labels.
DegenerateStrings == { <<".">>, <<"l","o","c","a","l","h","o","s","t">>, <<"g","o","o","g","l">> }

\* Values that are not a str, or an empty one.
DegenerateValues ==
  { PyStr(<<>>), PyNone, PyInt(<<"0">>), PyInt(<<"1","2","3">>), PyList(<<>>), PyList(<<"a">>) }

DetectHostnames ==
  {PyStr(h) : h \in LegitHostnames \cup OtherHostnames \cup DegenerateStrings} \cup DegenerateValues

(***************************************************************************)
(* Collector results and their risk contributions (thousandths)            *)
(***************************************************************************)
\* get_ct_risk_score, lines 126-131: the contribution of a CT result.
get_ct_risk_score(ct) ==
  IF ct.warning = "no_certs_found" THEN 100
  ELSE IF ct.warning = "many_issuers" THEN 80
  ELSE IF ct.warning = "frequent_reissuance" THEN 50
  ELSE 0

\* get_domain_age_risk_score, lines 242-266.  age_days is <<>> for None and
\* <<n>> for n days.
get_domain_age_risk_score(age) ==
  IF ~age.checked \/ age.age_days = <<>> THEN 0
  ELSE LET age_days == age.age_days[1]
       IN IF age_days < 7 THEN 200
          ELSE IF age_days < 30 THEN 150
          ELSE IF age_days < 90 THEN 100
          ELSE IF age_days < 180 THEN 50
          ELSE IF age_days < 365 THEN 20
          ELSE 0

\* get_visual_risk_score, lines 226-251.
get_visual_risk_score(visual_result) ==
  IF ~visual_result.analyzed THEN 0
  ELSE LET brand == IF visual_result.detected_brand # None
                         /\ visual_result.brand_match_confidence > 70 THEN 150 ELSE 0
           login == IF visual_result.is_login_page THEN 50 ELSE 0
           urgency == IF visual_result.has_urgency_elements THEN 80 ELSE 0
       IN Min2(brand + login + urgency, 250)

\* "urgency" in p.lower() and "hidden_iframe" in p.lower(), over the pattern
\* names the client sends.
HasUrgency(p) == p \in {"urgency_language", "URGENCY_TIMER"}

HasHiddenIframe(p) == p \in {"hidden_iframe"}

\* dom_analysis as built by analyze, lines 139-145 (the ratio is kept as its
\* numerator and denominator).
BuildDomAnalysis(patterns, links) ==
  [external_links |-> links.external,
   total_links |-> links.total,
   ratio_num |-> links.external,
   ratio_den |-> Max2(links.total, 1),
   hidden_iframes |-> IF patterns # <<>> THEN Cardinality({i \in 1..Len(patterns) : HasHiddenIframe(patterns[i])}) ELSE 0]

(***************************************************************************)
(* app.py: calculate_risk_score and determine_verdict                      *)
(***************************************************************************)
\* The SSL factor without the penalty for a site that has no TLS at all.
ssl_factor_NoTlsUnpenalised(info) ==
  (IF info.security_score < 30 THEN 100
   ELSE IF info.security_score < 50 THEN 50
   ELSE IF info.security_score < 70 THEN 20 ELSE 0)
  + (IF info.is_self_signed THEN 50 ELSE 0)
  + (IF ~info.is_valid /\ info.has_ssl THEN 60 ELSE 0)
  + (IF info.is_expired THEN 50 ELSE 0)

\* SSL factor, lines 231-246.
ssl_factor(info) ==
  (IF info.security_score < 30 THEN 100
   ELSE IF info.security_score < 50 THEN 50
   ELSE IF info.security_score < 70 THEN 20 ELSE 0)
  + (IF info.is_self_signed THEN 50 ELSE 0)
  + (IF ~info.is_valid /\ info.has_ssl THEN 60 ELSE 0)
  + (IF info.is_expired THEN 50 ELSE 0)
  + (IF ~info.has_ssl THEN 60 ELSE 0)

\* Domain factor, lines 252-257.
domain_factor(info) ==
  (IF info.is_ip_address THEN 50 ELSE 0)
  + (IF info.has_suspicious_tld THEN 40 ELSE 0)
  + (IF info.has_many_subdomains THEN 20 ELSE 0)

IsPasswordForm(f) == f.hasPassword \/ f.has_password

IsExternalForm(f) == f.submitsToDifferentDomain

\* Form factor, lines 260-268.
form_factor(fs) ==
  LET password_forms == Cardinality({i \in 1..Len(fs) : IsPasswordForm(fs[i])})
      external_forms == Cardinality({i \in 1..Len(fs) : IsExternalForm(fs[i])})
  IN (IF password_forms > 0 THEN 60 ELSE 0)
     + (IF password_forms > 1 THEN 30 ELSE 0)
     + (IF external_forms > 0 THEN 80 ELSE 0)

\* DOM/behaviour factor, lines 271-279; the ratio exceeds 0.8 exactly when
\* 5 * numerator > 4 * denominator.
dom_factor(patterns, dom) ==
  (IF patterns # <<>>
   THEN Min2(60, Cardinality({i \in 1..Len(patterns) : HasUrgency(patterns[i])}) * 20)
        + (IF dom.hidden_iframes > 0 THEN 40 ELSE 0)
   ELSE 0)
  + (IF 5 * dom.ratio_num > 4 * dom.ratio_den THEN 30 ELSE 0)

\* The sum with the CT contribution subtracted instead of added.
RawScore_CtSubtracted(ssl, dinfo, fs, patterns, dom, vinfo, tr, cr, vr, ar) ==
  tr + ar + vr + ssl_factor(ssl) - cr + domain_factor(dinfo) + form_factor(fs)
  + dom_factor(patterns, dom)

\* The local variable score just before the return of line 281; visual_info
\* is a parameter the function never reads.
RawScore(ssl, dinfo, fs, patterns, dom, vinfo, tr, cr, vr, ar) ==
  tr + ar + vr + ssl_factor(ssl) + cr + domain_factor(dinfo) + form_factor(fs)
  + dom_factor(patterns, dom)

\* round(x, 2) of a value in thousandths.
Round2(x) == 10 * RoundHalfEven(x, 10)

\* The return statement without the clamp.
ClampScore_Unclamped(raw) == Round2(raw)

\* min(round(score, 2), 0.99)
ClampScore(raw) == Min2(Round2(raw), 990)

calculate_risk_score(ssl, dinfo, fs, patterns, dom, vinfo, tr, cr, vr, ar) ==
  ClampScore(RawScore(ssl, dinfo, fs, patterns, dom, vinfo, tr, cr, vr, ar))

\* determine_verdict with strict comparisons.
determine_verdict_Strict(s) ==
  IF s > 550 THEN "phish"
  ELSE IF s > 250 THEN "suspicious"
  ELSE "safe"

determine_verdict(s) ==
  IF s >= 550 THEN "phish"
  ELSE IF s >= 250 THEN "suspicious"
  ELSE "safe"

(***************************************************************************)
(* Payloads handed to the scorer                                           *)
(***************************************************************************)
\* Longest forms list and longest suspiciousPatterns list of a request.
MaxForms == 2

MaxPatterns == 4

SeqsUpTo(S, n) == UNION {[1..k -> S] : k \in 0..n}

\* get_ssl_certificate_info: a plain-http URL (lines 36-39), a verified
\* certificate of a trusted issuer (lines 53-87), a certificate that fails
\* verification (lines 89-93).
SslHttp ==
  [has_ssl |-> FALSE, is_valid |-> FALSE, is_self_signed |-> FALSE, is_expired |-> FALSE,
   security_score |-> 20]

SslTrusted ==
  [has_ssl |-> TRUE, is_valid |-> TRUE, is_self_signed |-> FALSE, is_expired |-> FALSE,
   security_score |-> 90]

SslInvalid ==
  [has_ssl |-> TRUE, is_valid |-> FALSE, is_self_signed |-> FALSE, is_expired |-> FALSE,
   security_score |-> 15]

SslOutcomes == {SslHttp, SslTrusted, SslInvalid}

\* Every TLS payload the scorer accepts: all flag combinations, one security
\* score per tier of lines 232-237.
AllSslInfos ==
  [has_ssl : BOOLEAN, is_valid : BOOLEAN, is_self_signed : BOOLEAN, is_expired : BOOLEAN,
   security_score : {10, 30, 50, 70}]

\* check_certificate_transparency: unavailable (lines 42-44, 94-103), no
\* certificate found (lines 50-53).
CtUnavailable == [checked |-> FALSE, warning |-> "None"]

CtNoCerts == [checked |-> TRUE, warning |-> "no_certs_found"]

CtOutcomes == {CtUnavailable, CtNoCerts}

\* quick_domain_checks: nothing flagged; a keyword subdomain under a
\* denylisted TLD.
DomainPlain ==
  [is_ip_address |-> FALSE, has_suspicious_subdomain |-> FALSE,
   has_many_subdomains |-> FALSE, has_suspicious_tld |-> FALSE]

DomainTk ==
  [is_ip_address |-> FALSE, has_suspicious_subdomain |-> TRUE,
   has_many_subdomains |-> FALSE, has_suspicious_tld |-> TRUE]

DomainOutcomes == {DomainPlain, DomainTk}

AllDomainInfos ==
  [is_ip_address : BOOLEAN, has_suspicious_subdomain : BOOLEAN,
   has_many_subdomains : BOOLEAN, has_suspicious_tld : BOOLEAN]

\* check_domain_age: lookup failed; registered three days ago.
AgeUnavailable == [checked |-> FALSE, age_days |-> <<>>]

AgeThreeDays == [checked |-> TRUE, age_days |-> <<3>>]

AgeOutcomes == {AgeUnavailable, AgeThreeDays}

\* analyze_visual: no screenshot (lines 55-57); a login page of a known brand
\* with urgency elements.
VisualNone ==
  [analyzed |-> FALSE, detected_brand |-> None, brand_match_confidence |-> 0,
   is_login_page |-> FALSE, has_urgency_elements |-> FALSE]

VisualBrandLogin ==
  [analyzed |-> TRUE, detected_brand |-> <<"p","a","y","p","a","l">>, brand_match_confidence |-> 95,
   is_login_page |-> TRUE, has_urgency_elements |-> TRUE]

VisualOutcomes == {VisualNone, VisualBrandLogin}

\* The forms of a request.
Form(pw, pw2, ext) ==
  [hasPassword |-> pw, has_password |-> pw2, submitsToDifferentDomain |-> ext]

PasswordExternalForm == Form(TRUE, FALSE, TRUE)

FormKinds ==
  {Form(FALSE, FALSE, FALSE), Form(TRUE, FALSE, FALSE), Form(FALSE, TRUE, FALSE),
   Form(FALSE, FALSE, TRUE), PasswordExternalForm}

FormsOfRequest == {<<>>, <<PasswordExternalForm>>}

AllForms == SeqsUpTo(FormKinds, MaxForms)

\* suspiciousPatterns and externalLinks of a request.
PatternNames == {"urgency_language", "hidden_iframe"}

PatternsOfRequest == {<<>>, <<"urgency_language", "urgency_language", "hidden_iframe">>}

AllPatterns == SeqsUpTo(PatternNames, MaxPatterns)

NoLinks == [external |-> 0, total |-> 0]

LinksOfRequest == {NoLinks, [external |-> 9, total |-> 10]}

AllLinks == LinksOfRequest \cup {[external |-> 8, total |-> 10]}

\* Values of the numeric arguments of calculate_risk_score: what the four
\* get_*_risk_score functions return and, for ct_risk, values between them.
TyposquatRisks == {0, 350}

AgeRisks == {0, 20, 50, 100, 150, 200}

VisualRisks == {0, 50, 80, 130, 150, 200, 230, 250}

CtRisks == {0, 4, 50, 80, 96, 100, 146}

\* A crt.sh answer: how the request ended and, for a 200 answer, the parsed
\* list of certificate entries.  An entry carries its issuer_name and whether
\* its entry_timestamp lies within the last thirty days (line 69).
Cert(issuer, recent) == [issuer_name |-> issuer, recent |-> recent]

IssuerNames == <<"Let's Encrypt", "DigiCert", "Sectigo", "GoDaddy", "ZeroSSL">>

\* total entries, the first ones issued by distinct issuers, the first ones
\* logged recently.
CertsWith(total, issuers, recent) ==
  [i \in 1..total |-> Cert(IssuerNames[Min2(i, issuers)], i <= recent)]

\* Longest certificate list of an answer.
MaxCerts == 8

CtFailures == {"timeout", "request_exception", "http_503"}

CtResponses ==
  {[status |-> s, certs |-> <<>>] : s \in CtFailures}
  \cup {[status |-> "http_200", certs |-> CertsWith(t, k, r)] :
          t \in 0..MaxCerts, k \in 1..Len(IssuerNames), r \in 0..MaxCerts}

\* check_certificate_transparency, lines 16-103, on the answer of crt.sh; of
\* the result the fields checked and warning are kept.
check_certificate_transparency(host, response) ==
  IF ~Truthy(host) THEN [checked |-> FALSE, warning |-> "None"]
  ELSE IF response.status # "http_200" THEN [checked |-> FALSE, warning |-> "None"]
  ELSE IF response.certs = <<>> THEN [checked |-> TRUE, warning |-> "no_certs_found"]
  ELSE LET seen == SubSeq(response.certs, 1, Min2(Len(response.certs), 50))
           issuers == {seen[i].issuer_name : i \in 1..Len(seen)}
           recent_certs == Cardinality({i \in 1..Len(seen) : seen[i].recent})
           multiple_issuers == Cardinality(issuers) > 3
           first == IF multiple_issuers THEN "many_issuers" ELSE "None"
       IN [checked |-> TRUE,
           warning |-> IF recent_certs > 5 THEN "frequent_reissuance" ELSE first]

\* Hostnames of the transparency-log queries.
CtHostnames == {PyStr(<<>>), PyStr(<<"e","x","a","m","p","l","e",".","c","o","m">>)}

\* Hostnames of the requests analysed.
ScenarioHost == PyStr(<<"s","e","c","u","r","e","-","l","o","g","i","n",".","p","a","y","p","a","l","-","v","e","r","i","f","y",".","t","k">>)

RequestHostnames ==
  {ScenarioHost, PyStr(<<"p","a","y","p","a","1",".","c","o","m">>), PyInt(<<"1","2","3">>)}

(***************************************************************************)
(* app.py: the request body and validate_request_data                      *)
(***************************************************************************)
MAX_URL_LENGTH == 2048

MAX_IMAGE_SIZE == 5242880

MAX_FORMS == 100

PyDict(fields) == [type |-> "dict", val |-> fields]

\* d.get(key, default) on the fields of a dict.
DictGet(fields, key, default) == IF key \in DOMAIN fields THEN fields[key] ELSE default

\* The url field: its Python type and, for a str, what validate_url reads of
\* it: its length, whether urlparse accepts it, its scheme and whether it has
\* a netloc.
UrlValue(type, length, parses, scheme, netloc) ==
  [type |-> type, length |-> length, parses |-> parses, scheme |-> scheme, netloc |-> netloc]

HttpsUrl == UrlValue("str", 24, TRUE, "https", TRUE)

HttpUrl == UrlValue("str", 23, TRUE, "http", TRUE)

\* validate_url, lines 49-62: the error message, "None" for a valid URL.
validate_url(url) ==
  IF url.type # "str" \/ url.length = 0 THEN "Missing or invalid URL"
  ELSE IF url.length > MAX_URL_LENGTH THEN "URL too long"
  ELSE IF ~url.parses THEN "Malformed URL"
  ELSE IF url.scheme \notin {"http", "https"} THEN "Invalid URL scheme"
  ELSE IF ~url.netloc THEN "Invalid URL format"
  ELSE "None"

\* The image_b64 field, a str given by its length.
ImageValue(length) == [type |-> "str", length |-> length]

NoImage == ImageValue(0)

Screenshot == ImageValue(4096)

\* The JSON document of the request.  json tells how request.get_json ends:
\* "invalid" raises, "null" gives None, "object" gives a dict with the fields
\* shown (a field the client left out holds the default of lines 66-75 and
\* 100-106); "array" and "string" give a non-empty list and str.
Body(json, url, image_b64, fs, patterns, links, host) ==
  [json |-> json, url |-> url, image_b64 |-> image_b64, forms |-> fs,
   suspiciousPatterns |-> patterns, externalLinks |-> links, hostname |-> host]

\* A suspiciousPatterns element that is a str, by the name the client sends.
PatternStr(name) == [type |-> "str", val |-> name]

ExampleHost == PyStr(<<"e","x","a","m","p","l","e",".","c","o","m">>)

Paypa1Host == PyStr(<<"p","a","y","p","a","1",".","c","o","m">>)

\* A page with nothing to report, with a screenshot.
CleanBody ==
  Body("object", HttpsUrl, Screenshot, PyList(<<>>), PyList(<<>>), PyDict(<<>>), ExampleHost)

\* A credential-harvesting page with a screenshot.
PhishBody ==
  Body("object", HttpsUrl, Screenshot, PyList(<<PyDict(PasswordExternalForm)>>),
       PyList(<<PatternStr("urgency_language"), PatternStr("urgency_language"),
                PatternStr("hidden_iframe")>>),
       PyDict([external |-> 9, total |-> 10]), Paypa1Host)

\* A partial payload: plain http, no hostname, externalLinks without total.
PartialBody ==
  Body("object", HttpUrl, NoImage, PyList(<<PyDict(Form(TRUE, FALSE, FALSE))>>), PyList(<<>>),
       PyDict([external |-> 2]), PyStr(<<>>))

WellFormedBodies == {CleanBody, PhishBody, PartialBody}

\* Bodies that pass validate_request_data with one part malformed: a forms
\* element that is not an object, suspiciousPatterns that is a number or holds
\* a number, externalLinks that is a list or null, a hostname that is a
\* number.
MalformedBodies ==
  {[CleanBody EXCEPT !.forms = PyList(<<PyStr(<<"x">>)>>)],
   [CleanBody EXCEPT !.suspiciousPatterns = PyInt(<<"5">>)],
   [CleanBody EXCEPT !.suspiciousPatterns = PyList(<<PyInt(<<"1">>)>>)],
   [CleanBody EXCEPT !.externalLinks = PyList(<<>>)],
   [CleanBody EXCEPT !.externalLinks = PyNone],
   [CleanBody EXCEPT !.hostname = PyInt(<<"1","2","3">>)]}

\* Bodies the validation rejects: the URL missing, not a str, too long, not
\* parseable, of another scheme, without a host; the image too large; forms
\* not a list or longer than MAX_FORMS.
InvalidUrls ==
  {UrlValue("str", 0, TRUE, "", FALSE), UrlValue("int", 0, FALSE, "", FALSE),
   UrlValue("str", MAX_URL_LENGTH + 1, TRUE, "https", TRUE),
   UrlValue("str", 20, FALSE, "http", TRUE),
   UrlValue("str", 18, TRUE, "ftp", TRUE), UrlValue("str", 7, TRUE, "http", FALSE)}

InvalidBodies ==
  {[CleanBody EXCEPT !.url = u] : u \in InvalidUrls}
  \cup {[PhishBody EXCEPT !.image_b64 = ImageValue(MAX_IMAGE_SIZE + 1)],
        [CleanBody EXCEPT !.forms = PyStr(<<"x">>)],
        [CleanBody EXCEPT !.forms = PyNone],
        [CleanBody EXCEPT !.forms = PyList([i \in 1..(MAX_FORMS + 1) |-> PyDict(Form(FALSE, FALSE, FALSE))])],
        [CleanBody EXCEPT !.url = UrlValue("str", 0, TRUE, "", FALSE),
                          !.forms = PyStr(<<"x">>)]}

\* Documents that are not a JSON object with fields: unparseable, null, {},
\* [], and a non-empty array and string.
NonObjectBodies ==
  {[CleanBody EXCEPT !.json = j] :
     j \in {"invalid", "null", "empty_object", "empty_array", "array", "string"}}

RequestBodies == WellFormedBodies \cup MalformedBodies \cup InvalidBodies \cup NonObjectBodies

\* bool(data) of line 92.
BodyTruthy(body) == body.json \in {"object", "array", "string"}

\* validate_request_data, lines 64-81: the list of error messages.
validate_request_data(data) ==
  LET url_error == validate_url(data.url)
      image_error == IF data.image_b64.length > 0 /\ data.image_b64.length > MAX_IMAGE_SIZE
                     THEN "Image too large" ELSE "None"
      forms_error == IF data.forms.type # "list" THEN "Forms must be a list"
                     ELSE IF Len(data.forms.val) > MAX_FORMS THEN "Too many forms"
                     ELSE "None"
  IN SelectSeq(<<url_error, image_error, forms_error>>, LAMBDA e : e # "None")

(***************************************************************************)
(* The collectors behind analyze, on the answer of the service they call   *)
(***************************************************************************)
\* A certificate record together with its certificate_error field.
WithError(info, error) ==
  [f \in DOMAIN info \cup {"certificate_error"} |->
     IF f = "certificate_error" THEN error ELSE info[f]]

\* How the TLS handshake of ssl_check.py lines 45-47 ends.
Handshakes == {"verified", "verification_failed", "timeout"}

TlsFailures == {"timeout"}

\* get_ssl_certificate_info, lines 7-115.
get_ssl_certificate_info(url, handshake) ==
  IF url.scheme # "https" THEN WithError(SslHttp, "Not using HTTPS")
  ELSE IF handshake = "verified" THEN WithError(SslTrusted, "None")
  ELSE IF handshake = "verification_failed"
  THEN WithError(SslInvalid, "Certificate verification failed")
  ELSE WithError([has_ssl |-> FALSE, is_valid |-> FALSE, is_self_signed |-> FALSE,
                  is_expired |-> FALSE, security_score |-> 30], "Connection timeout")

\* format_ssl_summary, lines 166-194: the leading part of the summary.
format_ssl_summary(cert_info) ==
  IF ~cert_info.has_ssl
  THEN IF cert_info.certificate_error = "Not using HTTPS"
       THEN "Site uses HTTP (unencrypted) - not HTTPS"
       ELSE "No SSL: " \o cert_info.certificate_error
  ELSE IF ~cert_info.is_valid THEN "Invalid SSL certificate: " \o cert_info.certificate_error
  ELSE IF cert_info.is_expired THEN "EXPIRED certificate"
  ELSE "Valid SSL"

\* format_ct_summary, ct_monitor.py lines 136-148.
format_ct_summary(ct) ==
  IF ~ct.checked THEN "CT log check unavailable"
  ELSE IF ct.warning = "no_certs_found" THEN "No certificates found in transparency logs"
  ELSE IF ct.warning = "many_issuers" THEN "Multiple cert issuers"
  ELSE IF ct.warning = "frequent_reissuance" THEN "Frequent cert reissuance"
  ELSE "CT logs: certs found"

\* The answers of crt.sh to the two queries of a request.
CtRequestResponses ==
  {[status |-> "timeout", certs |-> <<>>], [status |-> "http_200", certs |-> <<>>]}

\* The answer of the WHOIS / RDAP lookup: failed, or the age in days.
WhoisFailed == [status |-> "failed", age_days |-> <<>>]

WhoisAnswers == {WhoisFailed, [status |-> "ok", age_days |-> <<3>>]}

\* check_domain_age, domain_age.py lines 21-51 with 76-128 and 131-193.
check_domain_age(host, whois) ==
  IF ~Truthy(host) \/ whois.status # "ok" THEN [checked |-> FALSE, age_days |-> <<>>]
  ELSE [checked |-> TRUE, age_days |-> whois.age_days]

\* A visual result with its findings.
VisualResult(analyzed, brand, confidence, login, urgency, findings) ==
  [analyzed |-> analyzed, detected_brand |-> brand, brand_match_confidence |-> confidence,
   is_login_page |-> login, has_urgency_elements |-> urgency, findings |-> findings]

\* What the vision model answers: the request times out, or the parsed reply.
VisionTimeout == [status |-> "timeout", parsed |-> VisualNone]

VisionAnswers ==
  {VisionTimeout,
   [status |-> "http_200",
    parsed |-> VisualResult(TRUE, <<"p","a","y","p","a","l">>, 95, TRUE, TRUE,
                            <<"Fake login form", "Visual mismatch with brand", "Countdown timer">>)],
   [status |-> "http_200", parsed |-> VisualResult(TRUE, None, 0, FALSE, FALSE, <<>>)]}

\* analyze_visual, visual_analysis.py lines 33-141.
analyze_visual(image_b64, api_key, vision) ==
  IF image_b64.length = 0 \/ image_b64.length < 100
  THEN VisualResult(FALSE, None, 0, FALSE, FALSE, <<"No screenshot provided">>)
  ELSE IF ~api_key
  THEN VisualResult(FALSE, None, 0, FALSE, FALSE,
                    <<"Visual analysis unavailable - API key not configured">>)
  ELSE IF vision.status # "http_200"
  THEN VisualResult(FALSE, None, 0, FALSE, FALSE, <<"Visual analysis timed out">>)
  ELSE vision.parsed

\* finding.startswith("Visual")
StartsWithVisual(finding) ==
  finding \in {"Visual mismatch with brand", "Visual analysis timed out",
               "Visual analysis unavailable - API key not configured"}

\* How one POST of analyze_with_gemini ends.
LlmAnswers == {"http_200", "http_429", "http_500", "timeout", "bad_json"}

\* llm_proxy.py lines 61-62.
max_retries == 2

retry_delay == 3

\* The result of analyze_with_gemini after the retry loop, lines 102-155, by
\* its summary.
LlmResult(answer) ==
  CASE answer = "http_200" -> "parsed"
    [] answer = "http_500" -> "AI analysis unavailable (code 500)"
    [] answer = "timeout" -> "AI analysis timed out"
    [] answer = "bad_json" -> "AI analysis error"

(***************************************************************************)
(* app.py: build_evidence_list                                             *)
(***************************************************************************)
Entry(category, text) == [category |-> category, text |-> text]

ClosingRemark == Entry("closing", "No brand impersonation detected")

\* Lines 301-309.
AgeEvidence(age) ==
  IF age.age_days = <<>> THEN <<>>
  ELSE IF age.age_days[1] < 30 THEN <<Entry("domain_age", "NEW DOMAIN")>>
  ELSE IF age.age_days[1] < 90 THEN <<Entry("domain_age", "Young domain")>>
  ELSE IF age.age_days[1] >= 365 THEN <<Entry("domain_age", "Established domain")>>
  ELSE <<>>

\* Lines 312-321.
VisualEvidence(v) ==
  IF ~v.analyzed THEN <<>>
  ELSE LET findings == IF "findings" \in DOMAIN v THEN v.findings ELSE <<>>
           shown == SubSeq(findings, 1, Min2(Len(findings), 2))
       IN (IF v.detected_brand # None THEN <<Entry("visual", "Detected branding")>> ELSE <<>>)
          \o (IF v.has_urgency_elements
              THEN <<Entry("visual", "Visual urgency/fear elements detected")>> ELSE <<>>)
          \o (IF v.is_login_page
              THEN <<Entry("visual", "Login page detected by visual analysis")>> ELSE <<>>)
          \o [i \in 1..Len(SelectSeq(shown, LAMBDA f : ~StartsWithVisual(f))) |->
                Entry("visual", SelectSeq(shown, LAMBDA f : ~StartsWithVisual(f))[i])]

\* Lines 332-337.
DomainEvidence(info) ==
  (IF info.has_suspicious_subdomain THEN <<Entry("domain", "Suspicious subdomain")>> ELSE <<>>)
  \o (IF info.has_suspicious_tld THEN <<Entry("domain", "High-risk TLD")>> ELSE <<>>)
  \o (IF info.is_ip_address
      THEN <<Entry("domain", "Uses IP address instead of domain name")>> ELSE <<>>)

\* Lines 340-346.
FormEvidence(fs) ==
  (IF Cardinality({i \in 1..Len(fs) : IsPasswordForm(fs[i])}) > 0
   THEN <<Entry("form", "form(s) collecting passwords")>> ELSE <<>>)
  \o (IF Cardinality({i \in 1..Len(fs) : IsExternalForm(fs[i])}) > 0
      THEN <<Entry("form", "form(s) submitting to external domains")>> ELSE <<>>)

\* build_evidence_list with the TLS summary appended first.
build_evidence_list_TlsFirst(ssl, ssl_summary, dinfo, fs, patterns, dom, typosquat, ct, visual, age) ==
  <<Entry("tls", ssl_summary)>>
  \o (IF typosquat.is_typosquat THEN <<Entry("typosquat", "TYPOSQUAT")>> ELSE <<>>)
  \o AgeEvidence(age)
  \o VisualEvidence(visual)
  \o (IF ct.warning # "None" THEN <<Entry("ct", format_ct_summary(ct))>> ELSE <<>>)
  \o DomainEvidence(dinfo)
  \o FormEvidence(fs)
  \o (IF dom.hidden_iframes > 0 THEN <<Entry("dom", "Hidden iframes detected")>> ELSE <<>>)
  \o (IF ~typosquat.is_typosquat /\ ssl.is_valid /\ visual.detected_brand = None
      THEN <<ClosingRemark>> ELSE <<>>)

\* build_evidence_list, lines 293-357.
build_evidence_list(ssl, ssl_summary, dinfo, fs, patterns, dom, typosquat, ct, visual, age) ==
  (IF typosquat.is_typosquat THEN <<Entry("typosquat", "TYPOSQUAT")>> ELSE <<>>)
  \o AgeEvidence(age)
  \o VisualEvidence(visual)
  \o <<Entry("tls", ssl_summary)>>
  \o (IF ct.warning # "None" THEN <<Entry("ct", format_ct_summary(ct))>> ELSE <<>>)
  \o DomainEvidence(dinfo)
  \o FormEvidence(fs)
  \o (IF dom.hidden_iframes > 0 THEN <<Entry("dom", "Hidden iframes detected")>> ELSE <<>>)
  \o (IF ~typosquat.is_typosquat /\ ssl.is_valid /\ visual.detected_brand = None
      THEN <<ClosingRemark>> ELSE <<>>)

(***************************************************************************)
(* utils/domain_checks.py                                                  *)
(***************************************************************************)
\* s.join(parts) with "." between the parts.
RECURSIVE JoinDots(_)
JoinDots(parts) ==
  IF Len(parts) = 0 THEN <<>>
  ELSE IF Len(parts) = 1 THEN parts[1]
  ELSE parts[1] \o <<".">> \o JoinDots(Tail(parts))

\* sub in s
Contains(s, sub) ==
  \E i \in 1..(Len(s) - Len(sub) + 1) : SubSeq(s, i, i + Len(sub) - 1) = sub

DigitValue ==
  ("0" :> 0) @@ ("1" :> 1) @@ ("2" :> 2) @@ ("3" :> 3) @@ ("4" :> 4) @@ ("5" :> 5)
  @@ ("6" :> 6) @@ ("7" :> 7) @@ ("8" :> 8) @@ ("9" :> 9)

\* int(p) of a text of decimal digits, leading zeros allowed; any other text
\* of the labels used here makes int raise ValueError.
IsDigits(p) == Len(p) > 0 /\ \A i \in 1..Len(p) : p[i] \in DOMAIN DigitValue

RECURSIVE IntOf(_)
IntOf(p) == IF Len(p) = 0 THEN 0 ELSE 10 * IntOf(SubSeq(p, 1, Len(p) - 1)) + DigitValue[p[Len(p)]]

\* The entries of the public suffix list that the hosts used here end in.
PublicSuffixes ==
  { <<<<"c","o","m">>>>, <<<<"u","k">>>>, <<<<"c","o">>, <<"u","k">>>>, <<<<"t","k">>>>, <<<<"x","y","z">>>> }

\* tldextract.extract (line 23) on the host of the URL: a dotted quad of
\* octets without leading zeros is an IP address and has no suffix; otherwise
\* the suffix is the longest entry of the public suffix list the host ends in,
\* the domain is the label left of it and the subdomain is the rest.  A host
\* whose last label is no public suffix has an empty suffix.
extract(host) ==
  LET labels == Split(host)
      n == Len(labels)
      octet(p) == IsDigits(p) /\ IntOf(p) <= 255 /\ (Len(p) = 1 \/ p[1] # "0")
      suffix_lengths == {k \in 0..n : k = 0 \/ SubSeq(labels, n - k + 1, n) \in PublicSuffixes}
      k == CHOOSE x \in suffix_lengths : \A y \in suffix_lengths : y <= x
  IN IF n = 4 /\ \A i \in 1..4 : octet(labels[i])
     THEN [subdomain |-> <<>>, domain |-> host, suffix |-> <<>>]
     ELSE [subdomain |-> JoinDots(SubSeq(labels, 1, n - k - 1)),
           domain |-> IF n > k THEN labels[n - k] ELSE <<>>,
           suffix |-> JoinDots(SubSeq(labels, n - k + 1, n))]

\* Lines 44-48.
suspicious_keywords ==
  { <<"s","e","c","u","r","e">>, <<"l","o","g","i","n">>, <<"s","i","g","n","i","n">>,
    <<"a","c","c","o","u","n","t">>, <<"v","e","r","i","f","y">>, <<"u","p","d","a","t","e">>,
    <<"c","o","n","f","i","r","m">>, <<"b","a","n","k","i","n","g">>,
    <<"p","a","y","p","a","l">>, <<"a","m","a","z","o","n">>, <<"g","o","o","g","l","e">>,
    <<"m","i","c","r","o","s","o","f","t">>, <<"a","p","p","l","e">>,
    <<"n","e","t","f","l","i","x">>, <<"f","a","c","e","b","o","o","k">>,
    <<"i","n","s","t","a","g","r","a","m">>, <<"s","u","p","p","o","r","t">>,
    <<"h","e","l","p">> }

\* Lines 60-64.
suspicious_tlds ==
  { <<"t","k">>, <<"m","l">>, <<"g","a">>, <<"c","f">>, <<"g","q">>, <<"x","y","z">>,
    <<"t","o","p">>, <<"w","o","r","k">>, <<"c","l","i","c","k">>, <<"l","i","n","k">>,
    <<"b","u","z","z">>, <<"o","n","l","i","n","e">>, <<"s","i","t","e">>,
    <<"w","e","b","s","i","t","e">>, <<"s","p","a","c","e">>, <<"f","u","n">> }

\* quick_domain_checks with the test of line 38 left out: every host of four
\* labels counts as an IP address.
quick_domain_checks_AnyFourLabels(host) ==
  LET info == extract(host)
      subdomain_count == IF info.subdomain # <<>> THEN Len(Split(info.subdomain)) ELSE 0
  IN [is_ip_address |-> Len(Split(host)) = 4,
      has_suspicious_subdomain |->
        \E keyword \in suspicious_keywords : Contains(Lower(info.subdomain), keyword),
      has_many_subdomains |-> subdomain_count > 2,
      has_suspicious_tld |-> Lower(info.suffix) \in suspicious_tlds]

\* quick_domain_checks, lines 5-72, on the host of the URL (urlparse and
\* tldextract both take the host out of the URL); the flags of the result.
quick_domain_checks(host) ==
  LET info == extract(host)
      parts == Split(host)
      subdomain_count == IF info.subdomain # <<>> THEN Len(Split(info.subdomain)) ELSE 0
  IN [is_ip_address |->
        /\ Len(parts) = 4
        /\ \A i \in 1..4 : IsDigits(parts[i])
        /\ \A i \in 1..4 : IntOf(parts[i]) <= 255,
      has_suspicious_subdomain |->
        \E keyword \in suspicious_keywords : Contains(Lower(info.subdomain), keyword),
      has_many_subdomains |-> subdomain_count > 2,
      has_suspicious_tld |-> Lower(info.suffix) \in suspicious_tlds]

\* Longest host, in labels, handed to quick_domain_checks.
MaxLabels == 5

\* Labels of the hosts: an octet, an octet with a leading zero, a number above
\* 255 and two top-level domains.
HostLabels == { <<"1">>, <<"0","1">>, <<"2","5","6">>, <<"t","k">>, <<"c","o","m">> }

\* Hosts with a keyword of line 45 in the subdomain.
KeywordHosts ==
  { <<"l","o","g","i","n",".","1",".","t","k">>,
    <<"s","e","c","u","r","e","-","l","o","g","i","n",".","p","a","y","p","a","l","-","v","e","r","i","f","y",".","t","k">>,
    <<"L","o","g","i","n",".","a",".","b",".","c",".","c","o",".","u","k">> }

DomainHosts ==
  {JoinDots(labels) : labels \in UNION {[1..n -> HostLabels] : n \in 1..MaxLabels}}
  \cup KeywordHosts

(***************************************************************************)
(* State                                                                   *)
(***************************************************************************)
VARIABLES
  hostname,            \* the hostname under analysis (a Python value)
  dpc,                 \* detect_typosquatting: "idle", "call", "loop", "returned", "raised"
  domain_name,         \* its local domain_name
  brand_idx,           \* position of the brand loop in POPULAR_BRANDS
  result,              \* its local result
  pc,                  \* analyze: the statement reached
  typosquat_result, typosquat_risk,
  ssl_info,
  ct_result, ct_risk,
  domain_info,
  domain_age_result, domain_age_risk,
  visual_info, visual_risk,
  forms, suspicious_patterns, external_links, dom_analysis,
  score, verdict,
  first_score, first_verdict,  \* score and verdict of the call before the last one
  ct_response,         \* the answer of crt.sh to the query under way
  body,                \* the JSON document of the request
  api_key,             \* whether GEMINI_API_KEY is configured
  invoked,             \* the detectors, collectors and scorers called so far
  failed,              \* the collectors whose external call failed or timed out
  llm_attempt,         \* analyze_with_gemini: the loop variable attempt
  llm_answers,         \* how each POST of the retry loop ended
  llm_waits,           \* the seconds slept before each retry
  llm_analysis,        \* the summary analyze_with_gemini returned
  evidence,            \* the list build_evidence_list returned
  response,            \* the HTTP response of analyze
  brands,              \* the module-level POPULAR_BRANDS as a call finds it
  call,                \* a function called on its own: its name and arguments
  returns              \* what the calls of it made so far returned, in order

detectVars == <<dpc, domain_name, brand_idx, result>>

collectVars ==
  <<typosquat_result, typosquat_risk, ssl_info, ct_result, ct_risk, domain_info,
    domain_age_result, domain_age_risk, visual_info, visual_risk, forms,
    suspicious_patterns, external_links, dom_analysis>>

scoreVars == <<score, verdict, first_score, first_verdict>>

llmVars == <<llm_attempt, llm_answers, llm_waits, llm_analysis>>

callVars == <<brands, call, returns>>

requestVars ==
  <<ct_response, body, api_key, invoked, failed, llmVars, evidence, response, callVars>>

vars == <<hostname, detectVars, pc, collectVars, scoreVars, requestVars>>

\* The locals of detect_typosquatting and of analyze before they are assigned.
DetectIdle ==
  /\ domain_name = <<>>
  /\ brand_idx = 0
  /\ result = ZeroResult

AnalyzeIdle ==
  /\ typosquat_result = ZeroResult
  /\ typosquat_risk = 0
  /\ ssl_info = SslHttp
  /\ ct_result = CtUnavailable
  /\ ct_risk = 0
  /\ domain_info = DomainPlain
  /\ domain_age_result = AgeUnavailable
  /\ domain_age_risk = 0
  /\ visual_info = VisualNone
  /\ visual_risk = 0
  /\ forms = <<>>
  /\ suspicious_patterns = <<>>
  /\ external_links = NoLinks
  /\ dom_analysis = BuildDomAnalysis(<<>>, NoLinks)
  /\ score = 0
  /\ verdict = "None"
  /\ first_score = 0
  /\ first_verdict = "None"

\* No query under way.
NoCtResponse == [status |-> "None", certs |-> <<>>]

\* No request received and no response sent.
NoBody == [CleanBody EXCEPT !.json = "None"]

NoResponse == [status |-> 0, error |-> "None", details |-> <<>>]

HandlerIdle ==
  /\ body = NoBody
  /\ api_key = FALSE
  /\ invoked = {}
  /\ failed = {}
  /\ llm_attempt = 0
  /\ llm_answers = <<>>
  /\ llm_waits = <<>>
  /\ llm_analysis = "None"
  /\ evidence = <<>>
  /\ response = NoResponse

\* No function called on its own; the corpus is as the module defines it.
NoCall == [fn |-> "None", args |-> <<>>]

CallIdle ==
  /\ brands = POPULAR_BRANDS
  /\ call = NoCall
  /\ returns = <<>>

RequestIdle ==
  /\ ct_response = NoCtResponse
  /\ HandlerIdle

(***************************************************************************)
(* detect_typosquatting, one brand per step                                *)
(***************************************************************************)
InitDetect ==
  /\ hostname \in DetectHostnames
  /\ dpc = "call"
  /\ DetectIdle
  /\ pc = "idle"
  /\ AnalyzeIdle
  /\ RequestIdle
  /\ CallIdle

\* Lines 120-124: the falsy-hostname return, or normalize_domain, which raises
\* AttributeError on a value without startswith.
DetectEnter ==
  /\ dpc = "call"
  /\ IF ~Truthy(hostname)
     THEN dpc' = "returned" /\ UNCHANGED <<domain_name, brand_idx>>
     ELSE IF hostname.type # "str"
     THEN dpc' = "raised" /\ UNCHANGED <<domain_name, brand_idx>>
     ELSE /\ dpc' = "loop"
          /\ domain_name' = normalize_domain(hostname.val)
          /\ brand_idx' = 1
  /\ UNCHANGED <<hostname, requestVars, result, pc, collectVars, scoreVars>>

\* Lines 127-168 for the brand at brand_idx.
DetectIterate ==
  /\ dpc = "loop"
  /\ brand_idx <= Len(POPULAR_BRANDS)
  /\ LET step == brand_iteration(hostname.val, domain_name, POPULAR_BRANDS[brand_idx], result)
     IN /\ result' = step.result
        /\ IF LoopReturns(step.via)
           THEN dpc' = "returned" /\ UNCHANGED brand_idx
           ELSE dpc' = "loop" /\ brand_idx' = brand_idx + 1
  /\ UNCHANGED <<hostname, requestVars, domain_name, pc, collectVars, scoreVars>>

\* Line 170: the corpus is exhausted.
DetectExhausted ==
  /\ dpc = "loop"
  /\ brand_idx > Len(POPULAR_BRANDS)
  /\ dpc' = "returned"
  /\ UNCHANGED <<hostname, requestVars, domain_name, brand_idx, result, pc, collectVars, scoreVars>>

NextDetect == DetectEnter \/ DetectIterate \/ DetectExhausted

SpecDetect == InitDetect /\ [][NextDetect]_vars

(***************************************************************************)
(* analyze, one collector per step, then calculate_risk_score and          *)
(* determine_verdict; afterwards the scorer is called again with one       *)
(* argument changed                                                        *)
(***************************************************************************)
Init ==
  /\ hostname \in RequestHostnames
  /\ dpc = "idle"
  /\ DetectIdle
  /\ pc = "typosquat"
  /\ AnalyzeIdle
  /\ RequestIdle
  /\ CallIdle

\* app.py lines 112-113: detect_typosquatting, then get_typosquat_risk_score,
\* which runs the detection again.  An exception leaves the try block for the
\* handler at line 212.
TyposquatCheck ==
  /\ pc = "typosquat"
  /\ LET out == detect_typosquatting(hostname)
     IN IF out.raised # "None"
        THEN pc' = "failed" /\ UNCHANGED <<typosquat_result, typosquat_risk>>
        ELSE /\ typosquat_result' = out.result
             /\ typosquat_risk' = get_typosquat_risk_score(hostname)
             /\ pc' = "ssl"
  /\ UNCHANGED <<hostname, requestVars, detectVars, ssl_info, ct_result, ct_risk, domain_info,
                 domain_age_result, domain_age_risk, visual_info, visual_risk, forms,
                 suspicious_patterns, external_links, dom_analysis, scoreVars>>

\* Line 117.
SslCheck ==
  /\ pc = "ssl"
  /\ ssl_info' \in SslOutcomes
  /\ pc' = "ct"
  /\ UNCHANGED <<hostname, requestVars, detectVars, typosquat_result, typosquat_risk, ct_result, ct_risk,
                 domain_info, domain_age_result, domain_age_risk, visual_info, visual_risk,
                 forms, suspicious_patterns, external_links, dom_analysis, scoreVars>>

\* Lines 121-122: the transparency log is queried once for ct_result and once
\* more inside get_ct_risk_score.
CtCheck ==
  /\ pc = "ct"
  /\ ct_result' \in CtOutcomes
  /\ \E again \in CtOutcomes : ct_risk' = get_ct_risk_score(again)
  /\ pc' = "domain"
  /\ UNCHANGED <<hostname, requestVars, detectVars, typosquat_result, typosquat_risk, ssl_info,
                 domain_info, domain_age_result, domain_age_risk, visual_info, visual_risk,
                 forms, suspicious_patterns, external_links, dom_analysis, scoreVars>>

\* Line 126.
DomainChecks ==
  /\ pc = "domain"
  /\ domain_info' \in DomainOutcomes
  /\ pc' = "age"
  /\ UNCHANGED <<hostname, requestVars, detectVars, typosquat_result, typosquat_risk, ssl_info, ct_result,
                 ct_risk, domain_age_result, domain_age_risk, visual_info, visual_risk,
                 forms, suspicious_patterns, external_links, dom_analysis, scoreVars>>

\* Lines 129-130: the registration data is looked up once for
\* domain_age_result and once more inside get_domain_age_risk_score.
DomainAgeCheck ==
  /\ pc = "age"
  /\ domain_age_result' \in AgeOutcomes
  /\ \E again \in AgeOutcomes : domain_age_risk' = get_domain_age_risk_score(again)
  /\ pc' = "visual"
  /\ UNCHANGED <<hostname, requestVars, detectVars, typosquat_result, typosquat_risk, ssl_info, ct_result,
                 ct_risk, domain_info, visual_info, visual_risk, forms,
                 suspicious_patterns, external_links, dom_analysis, scoreVars>>

\* Lines 134-135.
VisualCheck ==
  /\ pc = "visual"
  /\ \E v \in VisualOutcomes :
       /\ visual_info' = v
       /\ visual_risk' = get_visual_risk_score(v)
  /\ pc' = "dom"
  /\ UNCHANGED <<hostname, requestVars, detectVars, typosquat_result, typosquat_risk, ssl_info, ct_result,
                 ct_risk, domain_info, domain_age_result, domain_age_risk, forms,
                 suspicious_patterns, external_links, dom_analysis, scoreVars>>

\* Lines 99-103 and 138-145: the page content of the request and dom_analysis.
DomAnalysis ==
  /\ pc = "dom"
  /\ \E fs \in FormsOfRequest, ps \in PatternsOfRequest, links \in LinksOfRequest :
       /\ forms' = fs
       /\ suspicious_patterns' = ps
       /\ external_links' = links
       /\ dom_analysis' = BuildDomAnalysis(ps, links)
  /\ pc' = "score"
  /\ UNCHANGED <<hostname, requestVars, detectVars, typosquat_result, typosquat_risk, ssl_info, ct_result,
                 ct_risk, domain_info, domain_age_result, domain_age_risk, visual_info,
                 visual_risk, scoreVars>>

\* Lines 159-162.
CalculateRiskScore ==
  /\ pc = "score"
  /\ score' = calculate_risk_score(ssl_info, domain_info, forms, suspicious_patterns,
                                   dom_analysis, visual_info, typosquat_risk, ct_risk,
                                   visual_risk,
                                   domain_age_risk)
  /\ pc' = "verdict"
  /\ UNCHANGED <<hostname, requestVars, detectVars, collectVars, verdict, first_score, first_verdict>>

\* Line 163.
DetermineVerdict ==
  /\ pc = "verdict"
  /\ verdict' = determine_verdict(score)
  /\ pc' = "done"
  /\ UNCHANGED <<hostname, requestVars, detectVars, collectVars, score, first_score, first_verdict>>

\* calculate_risk_score and determine_verdict on the arguments held in the
\* primed variables; the previous score and verdict are kept.
Rescore ==
  /\ first_score' = score
  /\ first_verdict' = verdict
  /\ score' = calculate_risk_score(ssl_info', domain_info', forms', suspicious_patterns',
                                   dom_analysis', visual_info', typosquat_risk', ct_risk',
                                   visual_risk',
                                   domain_age_risk')
  /\ verdict' = determine_verdict(score')
  /\ pc' = "second"

SecondCallSsl ==
  /\ pc = "done"
  /\ ssl_info' \in AllSslInfos
  /\ UNCHANGED <<hostname, requestVars, detectVars, typosquat_result, typosquat_risk, ct_result, ct_risk,
                 domain_info, domain_age_result, domain_age_risk, visual_info, visual_risk,
                 forms, suspicious_patterns, external_links, dom_analysis>>
  /\ Rescore

SecondCallDomain ==
  /\ pc = "done"
  /\ domain_info' \in AllDomainInfos
  /\ UNCHANGED <<hostname, requestVars, detectVars, typosquat_result, typosquat_risk, ssl_info, ct_result,
                 ct_risk, domain_age_result, domain_age_risk, visual_info, visual_risk,
                 forms, suspicious_patterns, external_links, dom_analysis>>
  /\ Rescore

SecondCallForms ==
  /\ pc = "done"
  /\ forms' \in AllForms
  /\ UNCHANGED <<hostname, requestVars, detectVars, typosquat_result, typosquat_risk, ssl_info, ct_result,
                 ct_risk, domain_info, domain_age_result, domain_age_risk, visual_info,
                 visual_risk, suspicious_patterns, external_links, dom_analysis>>
  /\ Rescore

SecondCallDom ==
  /\ pc = "done"
  /\ \E ps \in AllPatterns, links \in AllLinks :
       /\ suspicious_patterns' = ps
       /\ external_links' = links
       /\ dom_analysis' = BuildDomAnalysis(ps, links)
  /\ UNCHANGED <<hostname, requestVars, detectVars, typosquat_result, typosquat_risk, ssl_info, ct_result,
                 ct_risk, domain_info, domain_age_result, domain_age_risk, visual_info,
                 visual_risk, forms>>
  /\ Rescore

SecondCallRisks ==
  /\ pc = "done"
  /\ \/ typosquat_risk' \in TyposquatRisks /\ UNCHANGED <<ct_risk, visual_risk, domain_age_risk>>
     \/ ct_risk' \in CtRisks /\ UNCHANGED <<typosquat_risk, visual_risk, domain_age_risk>>
     \/ visual_risk' \in VisualRisks /\ UNCHANGED <<typosquat_risk, ct_risk, domain_age_risk>>
     \/ domain_age_risk' \in AgeRisks /\ UNCHANGED <<typosquat_risk, ct_risk, visual_risk>>
  /\ UNCHANGED <<hostname, requestVars, detectVars, typosquat_result, ssl_info, ct_result, domain_info,
                 domain_age_result, visual_info, forms, suspicious_patterns, external_links,
                 dom_analysis>>
  /\ Rescore

Next ==
  \/ TyposquatCheck
  \/ SslCheck
  \/ CtCheck
  \/ DomainChecks
  \/ DomainAgeCheck
  \/ VisualCheck
  \/ DomAnalysis
  \/ CalculateRiskScore
  \/ DetermineVerdict
  \/ SecondCallSsl
  \/ SecondCallDomain
  \/ SecondCallForms
  \/ SecondCallDom
  \/ SecondCallRisks

Spec == Init /\ [][Next]_vars

(***************************************************************************)
(* get_ct_risk_score on one answer of the transparency log                 *)
(***************************************************************************)
InitCt ==
  /\ hostname \in CtHostnames
  /\ ct_response \in CtResponses
  /\ dpc = "idle"
  /\ DetectIdle
  /\ pc = "ct_call"
  /\ AnalyzeIdle
  /\ HandlerIdle
  /\ CallIdle

\* ct_monitor.py lines 116-133: the query of line 121 and the elif chain.
GetCtRiskScore ==
  /\ pc = "ct_call"
  /\ ct_result' = check_certificate_transparency(hostname, ct_response)
  /\ ct_risk' = get_ct_risk_score(ct_result')
  /\ pc' = "ct_returned"
  /\ UNCHANGED <<hostname, requestVars, detectVars, typosquat_result, typosquat_risk, ssl_info,
                 domain_info, domain_age_result, domain_age_risk, visual_info, visual_risk,
                 forms, suspicious_patterns, external_links, dom_analysis, scoreVars>>

NextCt == GetCtRiskScore

SpecCt == InitCt /\ [][NextCt]_vars

(***************************************************************************)
(* analyze as the handler of POST /api/analyze: the body is parsed and     *)
(* validated, every detector and collector is called in turn, the LLM      *)
(* retry loop runs one POST per step, then the score, the verdict and the  *)
(* evidence list are computed and the response is sent                     *)
(***************************************************************************)
InitRequest ==
  /\ body \in RequestBodies
  /\ api_key \in BOOLEAN
  /\ hostname = PyStr(<<>>)
  /\ dpc = "idle"
  /\ DetectIdle
  /\ pc = "request"
  /\ AnalyzeIdle
  /\ ct_response = NoCtResponse
  /\ invoked = {}
  /\ failed = {}
  /\ llm_attempt = 0
  /\ llm_answers = <<>>
  /\ llm_waits = <<>>
  /\ llm_analysis = "None"
  /\ evidence = <<>>
  /\ response = NoResponse
  /\ CallIdle

ErrorResponse(status, error, details) == [status |-> status, error |-> error, details |-> details]

\* The handler of lines 211-214.
AnalysisFailed == ErrorResponse(500, "Analysis failed", <<>>)

\* An exception that leaves analyze: the framework answers 500.
Unhandled == ErrorResponse(500, "Internal Server Error", <<>>)

\* sum(1 for f in forms if f.get(...)) raises on an element without get.
FormsRaise(fs) == \E i \in 1..Len(fs.val) : fs.val[i].type # "dict"

\* Line 144 raises on a truthy value that cannot be iterated and on an
\* element without lower.
PatternsRaise(patterns) ==
  /\ Truthy(patterns)
  /\ \/ patterns.type = "int"
     \/ patterns.type = "list" /\ \E i \in 1..Len(patterns.val) : patterns.val[i].type # "str"

\* Line 141 raises on a value without get.
LinksRaise(links) == links.type # "dict"

\* Lines 87-93.
ParseBody ==
  /\ pc = "request"
  /\ IF body.json = "invalid"
     THEN response' = ErrorResponse(400, "Invalid JSON payload", <<>>) /\ pc' = "responded"
     ELSE IF ~BodyTruthy(body)
     THEN response' = ErrorResponse(400, "Missing request body", <<>>) /\ pc' = "responded"
     ELSE response' = response /\ pc' = "validate"
  /\ UNCHANGED <<hostname, detectVars, collectVars, scoreVars, ct_response, body, api_key, callVars,
                 invoked, failed, llmVars, evidence>>

\* Lines 95-106.  validate_request_data is called outside the try block of
\* line 108 and raises AttributeError on a document without get.  The locals
\* forms, suspicious_patterns and external_links are kept in the form the
\* scorer reads; a malformed one stays in body.
ValidateRequest ==
  /\ pc = "validate"
  /\ IF body.json # "object"
     THEN /\ response' = Unhandled
          /\ pc' = "responded"
          /\ UNCHANGED <<hostname, forms, suspicious_patterns, external_links>>
     ELSE IF validate_request_data(body) # <<>>
     THEN /\ response' = ErrorResponse(400, "Validation failed", validate_request_data(body))
          /\ pc' = "responded"
          /\ UNCHANGED <<hostname, forms, suspicious_patterns, external_links>>
     ELSE /\ response' = response
          /\ pc' = "r_typosquat"
          /\ hostname' = body.hostname
          /\ forms' = IF FormsRaise(body.forms) THEN <<>>
                      ELSE [i \in 1..Len(body.forms.val) |-> body.forms.val[i].val]
          /\ suspicious_patterns' =
               IF body.suspiciousPatterns.type # "list" \/ PatternsRaise(body.suspiciousPatterns)
               THEN <<>>
               ELSE [i \in 1..Len(body.suspiciousPatterns.val) |->
                       body.suspiciousPatterns.val[i].val]
          /\ external_links' =
               IF LinksRaise(body.externalLinks) THEN NoLinks
               ELSE [external |-> DictGet(body.externalLinks.val, "external", 0),
                     total |-> DictGet(body.externalLinks.val, "total", 1)]
  /\ UNCHANGED <<detectVars, typosquat_result, typosquat_risk, ssl_info, ct_result, ct_risk,
                 domain_info, domain_age_result, domain_age_risk, visual_info, visual_risk,
                 dom_analysis, scoreVars, ct_response, body, api_key, callVars, invoked, failed,
                 llmVars, evidence>>

\* Lines 112-113.
DetectTyposquat ==
  /\ pc = "r_typosquat"
  /\ invoked' = invoked \cup {"detect_typosquatting"}
  /\ LET out == detect_typosquatting(hostname)
     IN IF out.raised # "None"
        THEN /\ response' = AnalysisFailed
             /\ pc' = "responded"
             /\ UNCHANGED <<typosquat_result, typosquat_risk>>
        ELSE /\ typosquat_result' = out.result
             /\ typosquat_risk' = get_typosquat_risk_score(hostname)
             /\ response' = response
             /\ pc' = "r_ssl"
  /\ UNCHANGED <<hostname, detectVars, ssl_info, ct_result, ct_risk, domain_info,
                 domain_age_result, domain_age_risk, visual_info, visual_risk, forms,
                 suspicious_patterns, external_links, dom_analysis, scoreVars, ct_response,
                 body, api_key, callVars, failed, llmVars, evidence>>

\* Lines 117-118.
FetchCertificate ==
  /\ pc = "r_ssl"
  /\ invoked' = invoked \cup {"get_ssl_certificate_info"}
  /\ \E handshake \in Handshakes :
       /\ ssl_info' = get_ssl_certificate_info(body.url, handshake)
       /\ failed' = IF body.url.scheme = "https" /\ handshake \in TlsFailures
                    THEN failed \cup {"tls"} ELSE failed
  /\ pc' = "r_ct"
  /\ UNCHANGED <<hostname, detectVars, typosquat_result, typosquat_risk, ct_result, ct_risk,
                 domain_info, domain_age_result, domain_age_risk, visual_info, visual_risk,
                 forms, suspicious_patterns, external_links, dom_analysis, scoreVars,
                 ct_response, body, api_key, callVars, llmVars, evidence, response>>

\* Lines 121-122: the log is queried for ct_result and once more inside
\* get_ct_risk_score; no query is made for an empty hostname.  The collector
\* counts as failed when both queries fail.
QueryTransparency ==
  /\ pc = "r_ct"
  /\ invoked' = invoked \cup {"check_certificate_transparency"}
  /\ \E first \in CtRequestResponses, again \in CtRequestResponses :
       /\ ct_result' = check_certificate_transparency(hostname, first)
       /\ ct_risk' = get_ct_risk_score(check_certificate_transparency(hostname, again))
       /\ ct_response' = IF Truthy(hostname) THEN again ELSE NoCtResponse
       /\ failed' = IF Truthy(hostname) /\ first.status \in CtFailures
                       /\ again.status \in CtFailures
                    THEN failed \cup {"ct"} ELSE failed
  /\ pc' = "r_domain"
  /\ UNCHANGED <<hostname, detectVars, typosquat_result, typosquat_risk, ssl_info, domain_info,
                 domain_age_result, domain_age_risk, visual_info, visual_risk, forms,
                 suspicious_patterns, external_links, dom_analysis, scoreVars, body,
                 api_key, callVars, llmVars, evidence, response>>

\* Line 126.
CheckDomain ==
  /\ pc = "r_domain"
  /\ invoked' = invoked \cup {"quick_domain_checks"}
  /\ domain_info' \in DomainOutcomes
  /\ pc' = "r_age"
  /\ UNCHANGED <<hostname, detectVars, typosquat_result, typosquat_risk, ssl_info, ct_result,
                 ct_risk, domain_age_result, domain_age_risk, visual_info, visual_risk,
                 forms, suspicious_patterns, external_links, dom_analysis, scoreVars,
                 ct_response, body, api_key, callVars, failed, llmVars, evidence, response>>

\* The lookup of line 129 with the failure of the WHOIS query propagating to
\* the handler of lines 211-214.
LookupDomainAge_LookupRaises ==
  /\ pc = "r_age"
  /\ invoked' = invoked \cup {"check_domain_age"}
  /\ \E first \in WhoisAnswers, again \in WhoisAnswers :
       IF Truthy(hostname) /\ first = WhoisFailed
       THEN /\ response' = AnalysisFailed
            /\ pc' = "responded"
            /\ UNCHANGED <<domain_age_result, domain_age_risk, failed>>
       ELSE /\ domain_age_result' = check_domain_age(hostname, first)
            /\ domain_age_risk' = get_domain_age_risk_score(check_domain_age(hostname, again))
            /\ failed' = failed
            /\ response' = response
            /\ pc' = "r_visual"
  /\ UNCHANGED <<hostname, detectVars, typosquat_result, typosquat_risk, ssl_info, ct_result,
                 ct_risk, domain_info, visual_info, visual_risk, forms, suspicious_patterns,
                 external_links, dom_analysis, scoreVars, ct_response, body, api_key, callVars,
                 llmVars, evidence>>

\* Lines 129-130: the registration data is looked up for domain_age_result
\* and once more inside get_domain_age_risk_score.
LookupDomainAge ==
  /\ pc = "r_age"
  /\ invoked' = invoked \cup {"check_domain_age"}
  /\ \E first \in WhoisAnswers, again \in WhoisAnswers :
       /\ domain_age_result' = check_domain_age(hostname, first)
       /\ domain_age_risk' = get_domain_age_risk_score(check_domain_age(hostname, again))
       /\ failed' = IF Truthy(hostname) /\ first = WhoisFailed /\ again = WhoisFailed
                    THEN failed \cup {"age"} ELSE failed
  /\ pc' = "r_visual"
  /\ UNCHANGED <<hostname, detectVars, typosquat_result, typosquat_risk, ssl_info, ct_result,
                 ct_risk, domain_info, visual_info, visual_risk, forms, suspicious_patterns,
                 external_links, dom_analysis, scoreVars, ct_response, body, api_key, callVars,
                 llmVars, evidence, response>>

\* Lines 134-135.
AnalyzeVisual ==
  /\ pc = "r_visual"
  /\ invoked' = invoked \cup {"analyze_visual"}
  /\ \E vision \in VisionAnswers :
       /\ visual_info' = analyze_visual(body.image_b64, api_key, vision)
       /\ visual_risk' = get_visual_risk_score(visual_info')
       /\ failed' = IF body.image_b64.length >= 100 /\ api_key /\ vision.status # "http_200"
                    THEN failed \cup {"visual"} ELSE failed
  /\ pc' = "r_dom"
  /\ UNCHANGED <<hostname, detectVars, typosquat_result, typosquat_risk, ssl_info, ct_result,
                 ct_risk, domain_info, domain_age_result, domain_age_risk, forms,
                 suspicious_patterns, external_links, dom_analysis, scoreVars, ct_response,
                 body, api_key, callVars, llmVars, evidence, response>>

\* Lines 139-145.
BuildDom ==
  /\ pc = "r_dom"
  /\ IF LinksRaise(body.externalLinks) \/ PatternsRaise(body.suspiciousPatterns)
     THEN /\ response' = AnalysisFailed
          /\ pc' = "responded"
          /\ UNCHANGED dom_analysis
     ELSE /\ dom_analysis' = BuildDomAnalysis(suspicious_patterns, external_links)
          /\ response' = response
          /\ pc' = "r_llm"
  /\ UNCHANGED <<hostname, detectVars, typosquat_result, typosquat_risk, ssl_info, ct_result,
                 ct_risk, domain_info, domain_age_result, domain_age_risk, visual_info,
                 visual_risk, forms, suspicious_patterns, external_links, scoreVars,
                 ct_response, body, api_key, callVars, invoked, failed, llmVars, evidence>>

\* Line 148 and llm_proxy.py lines 42-57: without a key the function returns
\* at once; build_analysis_prompt runs before the try block of line 59.
LlmEnter ==
  /\ pc = "r_llm"
  /\ invoked' = invoked \cup {"analyze_with_gemini"}
  /\ IF ~api_key
     THEN /\ llm_analysis' = "AI analysis unavailable - API key not configured"
          /\ response' = response
          /\ pc' = "r_score"
     ELSE IF FormsRaise(body.forms)
     THEN /\ response' = AnalysisFailed
          /\ pc' = "responded"
          /\ UNCHANGED llm_analysis
     ELSE /\ response' = response
          /\ pc' = "r_llm_post"
          /\ UNCHANGED llm_analysis
  /\ UNCHANGED <<hostname, detectVars, collectVars, scoreVars, ct_response, body, api_key, callVars,
                 failed, llm_attempt, llm_answers, llm_waits, evidence>>

\* LlmPost with the retry taken after a timeout as well as after a 429.
LlmPost_RetriesTimeout ==
  /\ pc = "r_llm_post"
  /\ \E answer \in LlmAnswers :
       /\ llm_answers' = Append(llm_answers, answer)
       /\ IF answer \in {"http_429", "timeout"} /\ llm_attempt < max_retries - 1
          THEN pc' = "r_llm_sleep" /\ UNCHANGED <<llm_analysis, failed>>
          ELSE /\ llm_analysis' = IF answer = "http_429" THEN "AI rate limit reached"
                                  ELSE LlmResult(answer)
               /\ failed' = IF answer = "http_200" THEN failed ELSE failed \cup {"llm"}
               /\ pc' = "r_score"
  /\ UNCHANGED <<hostname, detectVars, collectVars, scoreVars, ct_response, body, api_key, callVars,
                 invoked, llm_attempt, llm_waits, evidence, response>>

\* One iteration of the loop of lines 64-100 and, when the loop is left, lines
\* 102-155.
LlmPost ==
  /\ pc = "r_llm_post"
  /\ \E answer \in LlmAnswers :
       /\ llm_answers' = Append(llm_answers, answer)
       /\ IF answer = "http_429"
          THEN IF llm_attempt < max_retries - 1
               THEN pc' = "r_llm_sleep" /\ UNCHANGED <<llm_analysis, failed>>
               ELSE /\ llm_analysis' = "AI rate limit reached"
                    /\ failed' = failed \cup {"llm"}
                    /\ pc' = "r_score"
          ELSE /\ llm_analysis' = LlmResult(answer)
               /\ failed' = IF answer = "http_200" THEN failed ELSE failed \cup {"llm"}
               /\ pc' = "r_score"
  /\ UNCHANGED <<hostname, detectVars, collectVars, scoreVars, ct_response, body, api_key, callVars,
                 invoked, llm_attempt, llm_waits, evidence, response>>

\* Lines 88-91: the sleep before the next attempt.
LlmBackoff ==
  /\ pc = "r_llm_sleep"
  /\ llm_waits' = Append(llm_waits, retry_delay * (llm_attempt + 1))
  /\ llm_attempt' = llm_attempt + 1
  /\ pc' = "r_llm_post"
  /\ UNCHANGED <<hostname, detectVars, collectVars, scoreVars, ct_response, body, api_key, callVars,
                 invoked, failed, llm_answers, llm_analysis, evidence, response>>

\* Lines 159-163.
ScoreRequest ==
  /\ pc = "r_score"
  /\ invoked' = invoked \cup {"calculate_risk_score"} \cup
                (IF FormsRaise(body.forms) THEN {} ELSE {"determine_verdict"})
  /\ IF FormsRaise(body.forms)
     THEN /\ response' = AnalysisFailed
          /\ pc' = "responded"
          /\ UNCHANGED <<score, verdict>>
     ELSE /\ score' = calculate_risk_score(ssl_info, domain_info, forms, suspicious_patterns,
                                           dom_analysis, visual_info, typosquat_risk, ct_risk,
                                           visual_risk, domain_age_risk)
          /\ verdict' = determine_verdict(score')
          /\ response' = response
          /\ pc' = "r_evidence"
  /\ UNCHANGED <<hostname, detectVars, collectVars, first_score, first_verdict, ct_response,
                 body, api_key, callVars, failed, llmVars, evidence>>

\* Lines 166-209.
BuildEvidence ==
  /\ pc = "r_evidence"
  /\ invoked' = invoked \cup {"build_evidence_list"}
  /\ evidence' = build_evidence_list(ssl_info, format_ssl_summary(ssl_info), domain_info, forms,
                                     suspicious_patterns, dom_analysis, typosquat_result,
                                     ct_result, visual_info, domain_age_result)
  /\ response' = ErrorResponse(200, "None", <<>>)
  /\ pc' = "responded"
  /\ UNCHANGED <<hostname, detectVars, collectVars, scoreVars, ct_response, body, api_key, callVars,
                 failed, llmVars>>

NextRequest ==
  \/ ParseBody
  \/ ValidateRequest
  \/ DetectTyposquat
  \/ FetchCertificate
  \/ QueryTransparency
  \/ CheckDomain
  \/ LookupDomainAge
  \/ AnalyzeVisual
  \/ BuildDom
  \/ LlmEnter
  \/ LlmPost
  \/ LlmBackoff
  \/ ScoreRequest
  \/ BuildEvidence

SpecRequest == InitRequest /\ [][NextRequest]_vars

\* The steps of lines 117-209, from the first collector to the response.
CollectorSteps ==
  \/ FetchCertificate
  \/ QueryTransparency
  \/ CheckDomain
  \/ LookupDomainAge
  \/ AnalyzeVisual
  \/ BuildDom
  \/ LlmEnter
  \/ LlmPost
  \/ LlmBackoff
  \/ ScoreRequest
  \/ BuildEvidence

\* Once the collectors are reached every step is taken when it is enabled:
\* the handler thread runs each statement to its end, and every external call
\* carries a timeout (10 s for TLS, crt.sh and RDAP, 30 s for the vision
\* call, 25 s for each LLM POST).
FairSpecRequest == SpecRequest /\ WF_vars(CollectorSteps)

(***************************************************************************)
(* Functions called on their own: the same call is made repeatedly with    *)
(* the same arguments, and every value it returns is kept                  *)
(***************************************************************************)
\* How often one call is repeated.
MaxCalls == 2

DomainCalls == {[fn |-> "quick_domain_checks", args |-> <<host>>] : host \in DomainHosts}

DetectCalls == {[fn |-> "detect_typosquatting", args |-> <<h>>] : h \in DetectHostnames}

\* Arguments of calculate_risk_score, in the order of its parameters, with the
\* externalLinks of the request in place of dom_analysis.
ScoreCalls ==
  {[fn |-> "calculate_risk_score", args |-> <<ssl, dinfo, fs, ps, links, VisualNone, tr, cr, vr, ar>>] :
     ssl \in SslOutcomes, dinfo \in DomainOutcomes, fs \in FormsOfRequest,
     ps \in PatternsOfRequest, links \in LinksOfRequest, tr \in TyposquatRisks,
     cr \in {0, 100}, vr \in {0, 250}, ar \in {0, 200}}

\* Arguments of build_evidence_list, in the order of its parameters, with the
\* suspiciousPatterns of the request in place of dom_analysis.
EvidenceCalls ==
  {[fn |-> "build_evidence_list",
    args |-> <<ssl, dinfo, fs, ps, typosquat, ct, visual, age>>] :
     ssl \in {get_ssl_certificate_info(url, handshake) :
                url \in {HttpsUrl, HttpUrl}, handshake \in Handshakes},
     dinfo \in DomainOutcomes, fs \in FormsOfRequest, ps \in PatternsOfRequest,
     typosquat \in {ZeroResult, [ZeroResult EXCEPT !.is_typosquat = TRUE]},
     ct \in CtOutcomes, visual \in VisualOutcomes, age \in AgeOutcomes}

\* Longest text, and the letters of the texts, handed to the string
\* functions of the scanner.
MaxLen == 4

Letters == {"a", "b"}

Texts == SeqsUpTo(Letters, MaxLen)

\* Pairs of short texts, and a label next to the brand it resembles.
TextPairs ==
  (Texts \X Texts) \cup
  { << <<"f","e","c","a","b","o","o","k">>, <<"f","a","c","e","b","o","o","k">> >> }

TechniqueCalls == {[fn |-> "detect_technique", args |-> pair] : pair \in TextPairs}

LevenshteinCalls == {[fn |-> "calculate_levenshtein", args |-> pair] : pair \in TextPairs}

Calls ==
  DomainCalls \cup DetectCalls \cup ScoreCalls \cup EvidenceCalls \cup TechniqueCalls
  \cup LevenshteinCalls

InitCalls ==
  /\ call \in Calls
  /\ brands = POPULAR_BRANDS
  /\ returns = <<>>
  /\ hostname = PyStr(<<>>)
  /\ dpc = "idle"
  /\ DetectIdle
  /\ pc = "calls"
  /\ AnalyzeIdle
  /\ RequestIdle

Calling(fn) == pc = "calls" /\ call.fn = fn /\ Len(returns) < MaxCalls

\* domain_checks.py lines 5-72.
CallQuickDomainChecks ==
  /\ Calling("quick_domain_checks")
  /\ returns' = Append(returns, quick_domain_checks(call.args[1]))
  /\ UNCHANGED <<hostname, detectVars, pc, collectVars, scoreVars, ct_response, body, api_key,
                 invoked, failed, llmVars, evidence, response, brands, call>>

\* detect_typosquatting with an iteration that takes the first brand out of
\* the module-level corpus.
CallDetectTyposquatting_ConsumesCorpus ==
  /\ Calling("detect_typosquatting")
  /\ returns' = Append(returns, detect_in(brands, call.args[1]))
  /\ brands' = Tail(brands)
  /\ UNCHANGED <<hostname, detectVars, pc, collectVars, scoreVars, ct_response, body, api_key,
                 invoked, failed, llmVars, evidence, response, call>>

\* typosquat_scanner.py lines 107-170: result is a new dict in every call
\* (lines 112-118) and the loop of line 127 reads POPULAR_BRANDS without
\* writing it.
CallDetectTyposquatting ==
  /\ Calling("detect_typosquatting")
  /\ returns' = Append(returns, detect_in(brands, call.args[1]))
  /\ UNCHANGED <<hostname, detectVars, pc, collectVars, scoreVars, ct_response, body, api_key,
                 invoked, failed, llmVars, evidence, response, brands, call>>

\* app.py lines 217-281: score is a new local in every call (line 219).
CallCalculateRiskScore ==
  /\ Calling("calculate_risk_score")
  /\ LET a == call.args
     IN returns' = Append(returns,
                          calculate_risk_score(a[1], a[2], a[3], a[4],
                                               BuildDomAnalysis(a[4], a[5]), a[6], a[7],
                                               a[8], a[9], a[10]))
  /\ UNCHANGED <<hostname, detectVars, pc, collectVars, scoreVars, ct_response, body, api_key,
                 invoked, failed, llmVars, evidence, response, brands, call>>

\* app.py lines 293-357: evidence is a new list in every call (line 294).
CallBuildEvidenceList ==
  /\ Calling("build_evidence_list")
  /\ LET a == call.args
     IN returns' = Append(returns,
                          build_evidence_list(a[1], format_ssl_summary(a[1]), a[2], a[3], a[4],
                                              BuildDomAnalysis(a[4], NoLinks), a[5], a[6],
                                              a[7], a[8]))
  /\ UNCHANGED <<hostname, detectVars, pc, collectVars, scoreVars, ct_response, body, api_key,
                 invoked, failed, llmVars, evidence, response, brands, call>>

\* typosquat_scanner.py lines 195-214.
CallDetectTechnique ==
  /\ Calling("detect_technique")
  /\ returns' = Append(returns, detect_technique(call.args[1], call.args[2]))
  /\ UNCHANGED <<hostname, detectVars, pc, collectVars, scoreVars, ct_response, body, api_key,
                 invoked, failed, llmVars, evidence, response, brands, call>>

\* typosquat_scanner.py lines 74-92.
CallCalculateLevenshtein ==
  /\ Calling("calculate_levenshtein")
  /\ returns' = Append(returns, calculate_levenshtein(call.args[1], call.args[2]))
  /\ UNCHANGED <<hostname, detectVars, pc, collectVars, scoreVars, ct_response, body, api_key,
                 invoked, failed, llmVars, evidence, response, brands, call>>

NextCalls ==
  \/ CallQuickDomainChecks
  \/ CallCalculateLevenshtein
  \/ CallDetectTechnique
  \/ CallDetectTyposquatting
  \/ CallCalculateRiskScore
  \/ CallBuildEvidenceList

SpecCalls == InitCalls /\ [][NextCalls]_vars

(***************************************************************************)
(* Properties of the scorer (specification Spec)                           *)
(***************************************************************************)
Scored == pc \in {"verdict", "done", "second"}

Judged == pc \in {"done", "second"}

RawOfState ==
  RawScore(ssl_info, domain_info, forms, suspicious_patterns, dom_analysis, visual_info,
           typosquat_risk, ct_risk, visual_risk, domain_age_risk)

\* C1: whatever the TLS, domain, form, DOM and visual payloads and the
\* typosquat, CT, visual and domain-age contributions, the value returned by
\* calculate_risk_score lies between 0.0 and 0.99.
C1_ScoreWithinBounds == Scored => (0 <= score /\ score <= 990)

\* A call whose raw sum exceeds 0.99 and is clamped.
C1_Witness == pc = "second" /\ RawOfState > 990 /\ score = 990

\* C2: determine_verdict answers for every score in [0.0, 0.99]: phish exactly
\* when score >= 0.55, suspicious exactly when 0.25 <= score < 0.55, safe
\* exactly when score < 0.25.
C2_VerdictThresholds ==
  Judged =>
    /\ verdict \in {"phish", "suspicious", "safe"}
    /\ (verdict = "phish") <=> (score >= 550)
    /\ (verdict = "suspicious") <=> (250 <= score /\ score < 550)
    /\ (verdict = "safe") <=> (score < 250)

\* A score exactly on the phish threshold.
C2_Witness == pc = "second" /\ score = 550 /\ verdict = "phish"

Tier(v) == CASE v = "safe" -> 0 [] v = "suspicious" -> 1 [] v = "phish" -> 2

\* No category contributes less to the second call than to the first (each
\* second call changes the argument of one category only).
ContributionNotLowered ==
  /\ typosquat_risk' >= typosquat_risk
  /\ ct_risk' >= ct_risk
  /\ visual_risk' >= visual_risk
  /\ domain_age_risk' >= domain_age_risk
  /\ ssl_factor(ssl_info') >= ssl_factor(ssl_info)
  /\ domain_factor(domain_info') >= domain_factor(domain_info)
  /\ form_factor(forms') >= form_factor(forms)
  /\ dom_factor(suspicious_patterns', dom_analysis') >= dom_factor(suspicious_patterns, dom_analysis)

\* C3: when a second call of calculate_risk_score differs from the first only
\* in that one category contributes more, its verdict is never a lower tier
\* (safe < suspicious < phish), rounding and clamp included.
C3_VerdictMonotone ==
  [][(pc = "done" /\ pc' = "second" /\ ContributionNotLowered)
       => Tier(verdict') >= Tier(verdict)]_vars

\* A second call whose CT contribution is not a multiple of 0.01 and lifts the
\* verdict.
C3_Witness ==
  /\ pc = "second"
  /\ ct_risk \in {4, 96, 146}
  /\ score > first_score
  /\ Tier(verdict) > Tier(first_verdict)

\* The end-to-end scenario: secure-login.paypal-verify.tk over plain http,
\* registered three days ago, one password form posting to another domain, no
\* screenshot, no other page signal.
ScenarioRequest ==
  /\ pc = "done"
  /\ hostname = ScenarioHost
  /\ ssl_info = SslHttp
  /\ domain_info = DomainTk
  /\ domain_age_risk = 200
  /\ forms = <<PasswordExternalForm>>
  /\ visual_info = VisualNone
  /\ suspicious_patterns = <<>>
  /\ external_links = NoLinks

\* C7 as stated: in the scenario the engine flags a typosquat of paypal, the
\* typosquat contributes 0.35, and the result is score 0.99, verdict phish.
C7_ScenarioAsStated ==
  ScenarioRequest =>
    /\ typosquat_result.is_typosquat
    /\ typosquat_result.suspected_brand = <<"p","a","y","p","a","l">>
    /\ typosquat_risk = 350
    /\ score = 990
    /\ verdict = "phish"

\* C7 amended: in the scenario no typosquat is flagged and the typosquat
\* contributes nothing; the score is 0.54 plus the CT contribution, with
\* verdict suspicious when CT contributes nothing and phish otherwise.
C7_Scenario ==
  ScenarioRequest =>
    /\ ~typosquat_result.is_typosquat
    /\ typosquat_result.suspected_brand = None
    /\ typosquat_risk = 0
    /\ score = 540 + ct_risk
    /\ verdict = (IF ct_risk = 0 THEN "suspicious" ELSE "phish")

C7_Witness == ScenarioRequest /\ ct_risk = 0 /\ verdict = "suspicious"

\* What the TLS payload adds to the raw sum: the sum less the sum of the same
\* call with a payload that triggers no TLS rule.
SslContribution ==
  RawOfState
  - RawScore(SslTrusted, domain_info, forms, suspicious_patterns, dom_analysis, visual_info,
             typosquat_risk, ct_risk, visual_risk, domain_age_risk)

\* C8: a TLS payload that is expired, self-signed and has security_score 10
\* contributes exactly 0.20, whatever has_ssl and is_valid are.
C8_TlsContributionAsStated ==
  (/\ pc = "second"
   /\ ssl_info.is_expired
   /\ ssl_info.is_self_signed
   /\ ssl_info.security_score = 10)
  => SslContribution = 200

(***************************************************************************)
(* Properties of detect_typosquatting (specification SpecDetect)           *)
(***************************************************************************)
Returned == dpc = "returned"

\* C4 as stated: for every legitimate domain d of every brand, the hostname d
\* and a subdomain of d are reported with is_typosquat = false.
C4_LegitimateNeverFlaggedAsStated ==
  (Returned /\ hostname \in {PyStr(h) : h \in LegitHostnames}) => ~result.is_typosquat

\* C5 as stated: paypa1.com is reported as a typosquat of paypal with technique
\* letter_substitution and similarity_score 95.
C5_Paypa1AsStated ==
  (Returned /\ hostname = PyStr(<<"p","a","y","p","a","1",".","c","o","m">>)) =>
    /\ result.is_typosquat
    /\ result.suspected_brand = <<"p","a","y","p","a","l">>
    /\ result.technique = "letter_substitution"
    /\ result.similarity_score = 95

ArnazonReturned == Returned /\ hostname = PyStr(<<"a","r","n","a","z","o","n",".","c","o","m">>)

\* C6 as stated: arnazon.com is reported as a typosquat of amazon with
\* technique character_substitution or character_swap and similarity_score
\* at least 75.
C6_ArnazonAsStated ==
  ArnazonReturned =>
    /\ result.is_typosquat
    /\ result.suspected_brand = <<"a","m","a","z","o","n">>
    /\ result.technique \in {"character_substitution", "character_swap"}
    /\ result.similarity_score >= 75

\* C6 amended: arnazon.com is reported as a typosquat of amazon with technique
\* homoglyph and similarity_score 90.
C6_Arnazon ==
  ArnazonReturned =>
    /\ result.is_typosquat
    /\ result.suspected_brand = <<"a","m","a","z","o","n">>
    /\ result.technique = "homoglyph"
    /\ result.similarity_score = 90

C6_Witness == ArnazonReturned /\ result.is_typosquat /\ brand_idx = 4

\* One of the three detections of lines 134-168 triggers for the brand.
CheckTriggers(domain, brand) ==
  \/ /\ SimilarEnough(calculate_levenshtein(domain, brand), Max2(Len(domain), Len(brand)))
     /\ domain # brand
  \/ check_letter_substitution(domain, brand)
  \/ check_homoglyphs(domain, brand)

Reverse(s) == [i \in 1..Len(s) |-> s[Len(s) + 1 - i]]

BrandsUpTo(i) == SubSeq(POPULAR_BRANDS, 1, i)

BrandsAfter(i) == SubSeq(POPULAR_BRANDS, i + 1, Len(POPULAR_BRANDS))

\* C9: a reported typosquat names the earliest brand of the corpus for which
\* one of the three detections triggers; the loop stands at that brand when
\* the function returns, and the result is the same with the later brands
\* removed or declared in another order.
C9_FirstBrandWins ==
  (Returned /\ result.is_typosquat) =>
    /\ brand_idx \in 1..Len(POPULAR_BRANDS)
    /\ result.suspected_brand = POPULAR_BRANDS[brand_idx].brand
    /\ CheckTriggers(domain_name, POPULAR_BRANDS[brand_idx].brand)
    /\ \A i \in 1..(brand_idx - 1) : ~CheckTriggers(domain_name, POPULAR_BRANDS[i].brand)
    /\ detect_in(BrandsUpTo(brand_idx), hostname).result = result
    /\ detect_in(BrandsUpTo(brand_idx) \o Reverse(BrandsAfter(brand_idx)), hostname).result = result

\* A hostname close to two brands: usps.xyz is reported as ups, and usps,
\* declared later, triggers as well.
C9_Witness ==
  /\ Returned
  /\ hostname = PyStr(<<"u","s","p","s",".","x","y","z">>)
  /\ result.is_typosquat
  /\ \E i \in (brand_idx + 1)..Len(POPULAR_BRANDS) :
       CheckTriggers(domain_name, POPULAR_BRANDS[i].brand)

\* C10 as stated: for an empty hostname and for a degenerate one (a value that
\* is not a string, a bare dot, a single label) detect_typosquatting returns
\* the zero result and raises nothing.
C10_DegenerateAsStated ==
  (/\ dpc \in {"returned", "raised"}
   /\ hostname \in DegenerateValues \cup {PyStr(h) : h \in DegenerateStrings})
  => (dpc = "returned" /\ result = ZeroResult)
\* What line 228 adds to the sum for the visual category.
VisualContribution ==
  RawOfState
  - RawScore(ssl_info, domain_info, forms, suspicious_patterns, dom_analysis, visual_info,
             typosquat_risk, ct_risk, 0, domain_age_risk)

\* C19 as stated: for every visual-analysis result, the amount
\* calculate_risk_score adds for the visual category is at most 0.20, also
\* when brand match, login page and urgency elements all apply.
C19_VisualCappedAsStated ==
  (Scored /\ visual_risk = get_visual_risk_score(visual_info)) => VisualContribution <= 200

(***************************************************************************)
(* Properties of the transparency-log contribution (specification SpecCt)  *)
(***************************************************************************)
\* The entries the loop of line 60 reads, their distinct issuers and the
\* number of them logged within thirty days.
CertsRead == SubSeq(ct_response.certs, 1, Min2(Len(ct_response.certs), 50))

IssuersSeen == Cardinality({CertsRead[i].issuer_name : i \in 1..Len(CertsRead)})

RecentCerts == Cardinality({i \in 1..Len(CertsRead) : CertsRead[i].recent})

CtAnswered == pc = "ct_returned" /\ Truthy(hostname) /\ ct_response.status = "http_200"

\* C20 as stated: get_ct_risk_score yields 0.10 when zero certificates are
\* found, 0.08 when more than three distinct issuers are seen, 0.05 when more
\* than five certificates were issued in the trailing 30 days and 0 otherwise;
\* one state applies and the contributions are never summed.
C20_CtContributionAsStated ==
  pc = "ct_returned" =>
    /\ ct_risk \in {0, 50, 80, 100}
    /\ (CtAnswered /\ ct_response.certs = <<>>) => ct_risk = 100
    /\ (CtAnswered /\ IssuersSeen > 3) => ct_risk = 80
    /\ (CtAnswered /\ IssuersSeen <= 3 /\ RecentCerts > 5) => ct_risk = 50
    /\ (~CtAnswered \/ (ct_response.certs # <<>> /\ IssuersSeen <= 3 /\ RecentCerts <= 5))
         => ct_risk = 0

(***************************************************************************)
(* Properties of the request handler (specifications SpecRequest and       *)
(* FairSpecRequest)                                                        *)
(***************************************************************************)
Responded == pc = "responded"

PassesValidation == body.json = "object" /\ validate_request_data(body) = <<>>

\* A part of the payload is malformed: a forms element that is not an object,
\* suspiciousPatterns that is not a list of strings, externalLinks that is not
\* an object, a hostname that is not a string.
MalformedPayload ==
  \/ FormsRaise(body.forms)
  \/ PatternsRaise(body.suspiciousPatterns)
  \/ LinksRaise(body.externalLinks)
  \/ body.hostname.type \notin {"str", "NoneType"}

\* The response carries a verdict, a score and an evidence list.
AnswersWithVerdict ==
  /\ response.status = 200
  /\ response.error = "None"
  /\ verdict \in {"safe", "suspicious", "phish"}
  /\ 0 <= score /\ score <= 990
  /\ evidence # <<>>

\* C11 as stated: a request that passes validate_request_data never causes an
\* exception, whatever part of its payload is malformed or missing: analyze
\* answers with a verdict, a score and evidence and never with the
\* 'Analysis failed' error.
C11_MalformedPayloadAsStated ==
  (Responded /\ PassesValidation) =>
    (AnswersWithVerdict /\ response.error # "Analysis failed")

\* The external collectors of a request.
Collectors ==
  {"get_ssl_certificate_info", "check_certificate_transparency", "check_domain_age",
   "analyze_visual", "analyze_with_gemini"}

\* C12: for a request whose payload is well formed, whichever of the TLS
\* fetch, the CT query, the WHOIS lookup, the vision call and the LLM call
\* fail or time out, every collector has been invoked when the response is
\* sent, the response carries a verdict, a score and evidence, and the request
\* does reach that response once the first collector is called.
C12_CollectorFailureIsolation ==
  /\ []((Responded /\ PassesValidation /\ ~MalformedPayload) =>
          (AnswersWithVerdict /\ Collectors \subseteq invoked))
  /\ ((pc = "r_ssl" /\ ~MalformedPayload) ~> (Responded /\ AnswersWithVerdict))

\* All five collectors failed and the response carries a verdict.
C12_Witness ==
  /\ Responded
  /\ failed = {"tls", "ct", "age", "visual", "llm"}
  /\ AnswersWithVerdict
  /\ Collectors \subseteq invoked

\* What calculate_risk_score adds to the sum for the category of a collector.
Contribution(collector) ==
  CASE collector = "tls" -> ssl_factor(ssl_info)
    [] collector = "ct" -> ct_risk
    [] collector = "age" -> domain_age_risk
    [] collector = "visual" -> visual_risk
    [] OTHER -> 0

\* The score of the request under way with nothing added for the category.
ScoreWithout(collector) ==
  ClampScore(RawScore(ssl_info, domain_info, forms, suspicious_patterns, dom_analysis,
                      visual_info, typosquat_risk, ct_risk, visual_risk, domain_age_risk)
             - Contribution(collector))

\* C13 as stated: when the TLS fetch, the CT query, the domain-age lookup or
\* the vision call fails or times out, the risk score of the request equals
\* the score the same request gets with zero contribution from that category.
C13_NeutralOnFailureAsStated ==
  (Responded /\ response.status = 200) =>
    \A collector \in failed \cap {"tls", "ct", "age", "visual"} :
       score = ScoreWithout(collector)

TotalFailure == failed = {"tls", "ct", "age", "visual", "llm"}

\* No typosquat and nothing contributed by the forms or the DOM.
NoPageSignals ==
  /\ ~typosquat_result.is_typosquat
  /\ form_factor(forms) = 0
  /\ dom_factor(suspicious_patterns, dom_analysis) = 0

\* The evidence list has an entry of the category.
EvidenceOf(category) == \E i \in 1..Len(evidence) : evidence[i].category = category

\* C14 as stated: when the TLS fetch, the CT query, the domain-age lookup, the
\* vision call and the LLM call all fail, the request is answered, the verdict
\* of a hostname with no typosquat and no form or DOM signals is safe, and the
\* evidence list has an entry stating the unavailable status of each failed
\* category.
C14_TotalFailureAsStated ==
  (Responded /\ PassesValidation /\ ~MalformedPayload /\ TotalFailure /\ NoPageSignals) =>
    /\ AnswersWithVerdict
    /\ verdict = "safe"
    /\ \A category \in {"tls", "ct", "domain_age", "visual"} : EvidenceOf(category)


\* The requests validation has to reject: an empty or non-object body, or a
\* URL, image or forms value outside what validate_request_data accepts.
RejectedByValidation ==
  \/ body.json # "object"
  \/ validate_request_data(body) # <<>>

\* C15 as stated: every request with an empty or non-object body, or with a
\* URL, image or forms value that validation rejects, is answered with a 400
\* error and no detector, collector or scorer is invoked for it.
C15_ValidationFirstAsStated ==
  (Responded /\ RejectedByValidation) => (response.status = 400 /\ invoked = {})


\* The LLM call is in its retry loop.
InLlmLoop == pc \in {"r_llm_post", "r_llm_sleep"}

\* analyze_with_gemini has returned after at least one request to the provider.
LlmReturned == llm_answers # <<>> /\ ~InLlmLoop

\* C16: a 429 answer of the LLM provider is retried at most twice per request
\* (the loop makes at most max_retries attempts), the i-th wait is retry_delay
\* times i, only a 429 answer is followed by another attempt, a last attempt
\* that is still rate-limited returns the rate-limit fallback without raising,
\* and the call always leaves the loop.
C16_LlmRateLimitRetry ==
  /\ [](/\ Len(llm_waits) <= 2
        /\ Len(llm_waits) <= max_retries - 1
        /\ Len(llm_answers) <= max_retries
        /\ Len(llm_answers) <= Len(llm_waits) + 1
        /\ \A i \in 1..Len(llm_waits) :
             llm_waits[i] = retry_delay * i /\ llm_answers[i] = "http_429"
        /\ \A i \in 1..(Len(llm_answers) - 1) : llm_answers[i] = "http_429"
        /\ LlmReturned =>
             /\ llm_analysis # "None"
             /\ (pc = "r_score" => response = NoResponse)
             /\ llm_answers[Len(llm_answers)] = "http_429" =>
                  (Len(llm_answers) = max_retries /\ llm_analysis = "AI rate limit reached")
             /\ llm_answers[Len(llm_answers)] # "http_429" =>
                  llm_analysis = LlmResult(llm_answers[Len(llm_answers)]))
  /\ (pc = "r_llm_post" ~> LlmReturned)

\* Both attempts were rate-limited, one wait of retry_delay seconds lay between
\* them, and the request was answered with the rate-limit fallback.
C16_Witness ==
  /\ Responded /\ response.status = 200
  /\ llm_answers = <<"http_429", "http_429">>
  /\ llm_waits = <<retry_delay>>
  /\ llm_analysis = "AI rate limit reached"


\* The findings that rank above the closing remark and speak against the page.
NegativeFinding(entry) ==
  \/ entry.category = "domain_age" /\ entry.text \in {"NEW DOMAIN", "Young domain"}
  \/ entry.category = "visual" /\ entry.text = "Visual urgency/fear elements detected"
  \/ entry.category = "tls" /\ entry.text # "Valid SSL"
  \/ entry.category = "ct"
  \/ entry.category = "domain"
  \/ entry.category = "form"
  \/ entry.category = "dom"

HasClosingRemark == \E i \in 1..Len(evidence) : evidence[i] = ClosingRemark

\* C17 as stated: an evidence list with the closing remark 'No brand
\* impersonation detected' has no new or young domain alert, no visual urgency
\* entry, no invalid or expired TLS summary, no CT warning, no domain-structure
\* flag, no form flag and no hidden-iframe flag.
C17_ClosingRemarkAloneAsStated ==
  HasClosingRemark => \A i \in 1..Len(evidence) : ~NegativeFinding(evidence[i])


\* The place of a category in the priority order of the evidence list.
Rank(category) ==
  CASE category = "typosquat" -> 1
    [] category = "domain_age" -> 2
    [] category = "visual" -> 3
    [] category = "tls" -> 4
    [] category = "ct" -> 5
    [] category = "domain" -> 6
    [] category = "form" -> 7
    [] category = "dom" -> 8
    [] category = "closing" -> 9

\* The categories of the entries do not step back in the priority order.
InPriorityOrder(list) ==
  \A i, j \in 1..Len(list) : i < j => Rank(list[i].category) <= Rank(list[j].category)

\* The domain-age lookup of the request found a domain younger than 30 days.
YoungerThan30Days ==
  domain_age_result.age_days # <<>> /\ domain_age_result.age_days[1] < 30

\* C18: the entries of the evidence list are in the order typosquat alert,
\* domain-age alert, visual findings, TLS summary, CT warning, domain-structure
\* flags, form flags, DOM anomaly flags, closing remark; the alert of a flagged
\* typosquat is the first entry, and the new-domain alert of a domain that is
\* also younger than 30 days is the second.  The order is checked for the
\* list of the response and for the lists of every combination of
\* domain-structure flags.
C18_EvidenceOrdering ==
  (Responded /\ response.status = 200) =>
    /\ InPriorityOrder(evidence)
    /\ \A info \in AllDomainInfos :
         InPriorityOrder(build_evidence_list(ssl_info, format_ssl_summary(ssl_info), info,
                                             forms, suspicious_patterns, dom_analysis,
                                             typosquat_result, ct_result, visual_info,
                                             domain_age_result))
    /\ typosquat_result.is_typosquat =>
         evidence[1] = Entry("typosquat", "TYPOSQUAT")
    /\ (typosquat_result.is_typosquat /\ YoungerThan30Days) =>
         evidence[2] = Entry("domain_age", "NEW DOMAIN")

\* A flagged typosquat on a three-day-old domain whose evidence list also has
\* visual findings, the TLS summary, a CT warning, form flags and a DOM flag.
C18_Witness ==
  /\ Responded /\ response.status = 200
  /\ typosquat_result.is_typosquat /\ YoungerThan30Days
  /\ {evidence[i].category : i \in 1..Len(evidence)} =
       {"typosquat", "domain_age", "visual", "tls", "ct", "form", "dom"}


\* The value the call under way returned first.
HasReturned(fn) == call.fn = fn /\ returns # <<>>

\* C21: for the result of quick_domain_checks on any host, calculate_risk_score
\* adds at most 0.08 for the domain structure.
C21_DomainCeiling ==
  HasReturned("quick_domain_checks") => domain_factor(returns[1]) <= 80

\* A host under a high-risk top-level domain with more than two subdomain
\* labels: both flags are set and the factor is 0.06.
C21_Witness ==
  /\ HasReturned("quick_domain_checks")
  /\ returns[1].has_suspicious_tld /\ returns[1].has_many_subdomains
  /\ domain_factor(returns[1]) = 60


\* What calculate_risk_score adds for the forms and the DOM behaviour.
FormDomContribution == form_factor(forms) + dom_factor(suspicious_patterns, dom_analysis)

\* C22 as stated: the amount calculate_risk_score adds for forms and DOM
\* behaviour never exceeds 0.21.
C22_FormDomCeilingAsStated ==
  (Responded /\ response.status = 200) => FormDomContribution <= 210


DomainOrSubdomainOfLegitimate ==
  \E d \in LegitDomains : hostname.val = d \/ EndsWith(hostname.val, <<".">> \o d)

\* detect_typosquatting returned from the legitimate-domain check of line 129.
ShortCircuited ==
  Returned /\ result.details # <<>> /\ result.details[1].note = "legitimate"

\* C24 as stated: the legitimacy short-circuit fires only for a hostname that
\* equals a legitimate domain or is a dot-separated subdomain of one; a
\* hostname that merely ends with the characters of a legitimate domain is
\* scanned on.
C24_ShortCircuitOnlyForLegitimateAsStated ==
  ShortCircuited => DomainOrSubdomainOfLegitimate


\* C25 as stated: the score and the evidence of a response rest on one
\* observation of each collector: the evidence has a CT warning exactly when
\* the CT contribution to the score is not zero, and it has the new-domain
\* alert whenever the domain-age contribution is 0.15 or more.
C25_OneObservationAsStated ==
  (Responded /\ response.status = 200) =>
    /\ EvidenceOf("ct") <=> ct_risk # 0
    /\ domain_age_risk >= 150 =>
         \E i \in 1..Len(evidence) : evidence[i] = Entry("domain_age", "NEW DOMAIN")


\* The positions at which two texts of equal length differ.
DifferingPositions(domain, brand) == {i \in 1..Len(domain) : domain[i] # brand[i]}

\* The two differing positions are adjacent and their characters are exchanged.
AdjacentTransposition(domain, brand) ==
  \E i \in 1..(Len(domain) - 1) :
     /\ DifferingPositions(domain, brand) = {i, i + 1}
     /\ domain[i] = brand[i + 1] /\ domain[i + 1] = brand[i]

\* The technique the claim states for a label and a brand.
StatedTechnique(domain, brand) ==
  IF Len(domain) > Len(brand) THEN "character_insertion"
  ELSE IF Len(domain) < Len(brand) THEN "character_omission"
  ELSE IF Cardinality(DifferingPositions(domain, brand)) = 1 THEN "character_swap"
  ELSE IF Cardinality(DifferingPositions(domain, brand)) = 2
       THEN IF AdjacentTransposition(domain, brand) THEN "adjacent_swap"
            ELSE "character_substitution"
  ELSE "multiple_changes"

\* C26 as stated: detect_technique returns adjacent_swap for two differing
\* positions exactly when they are adjacent and their characters exchanged,
\* character_substitution for two differing positions otherwise,
\* character_swap for one, character_insertion or character_omission for
\* unequal lengths, and multiple_changes in every other case.
C26_TechniqueAsStated ==
  HasReturned("detect_technique") =>
    returns[1] = StatedTechnique(call.args[1], call.args[2])


\* C27 as stated: a hostname whose second-level label equals a brand name is
\* not reported as a typosquat of that brand, whichever of the three checks
\* reports.
C27_ExactBrandLabelAsStated ==
  (Returned /\ result.is_typosquat) => domain_name # result.suspected_brand


\* The text left after a leading "www." label is taken off.
WithoutWww(host) ==
  IF StartsWith(host, <<"w","w","w",".">>) THEN SubSeq(host, 5, Len(host)) ELSE host

\* The label immediately left of the public suffix of a host, lower-cased; a
\* host of one label is returned lower-cased as it is.  Stated for the hosts
\* of one label and for those ending in an entry of PublicSuffixes.
LabelLeftOfSuffix(host) ==
  IF Len(Split(WithoutWww(host))) = 1 THEN Lower(WithoutWww(host))
  ELSE Lower(extract(WithoutWww(host)).domain)

\* C28 as stated: normalize_domain strips a leading 'www.' label and returns,
\* lower-cased, the label immediately left of the public suffix, also under a
\* public suffix of several labels; a single-label hostname is returned
\* lower-cased unchanged.
C28_NormalizeAsStated ==
  (/\ dpc \in {"loop", "returned"}
   /\ hostname.type = "str" /\ Truthy(hostname)
   /\ \/ Len(Split(WithoutWww(hostname.val))) = 1
      \/ extract(WithoutWww(hostname.val)).suffix # <<>>) =>
    domain_name = LabelLeftOfSuffix(hostname.val)


BrandNames == {POPULAR_BRANDS[i].brand : i \in 1..Len(POPULAR_BRANDS)}

EditDistanceTechniques ==
  {"character_insertion", "character_omission", "character_swap", "adjacent_swap",
   "character_substitution", "multiple_changes"}

\* C29: a result of detect_typosquatting with is_typosquat true names a brand
\* of the corpus and a technique, with similarity_score 95 for
\* letter_substitution, 90 for homoglyph and between 75 and 99 for the
\* edit-distance techniques; a result with is_typosquat false has no brand, no
\* technique and similarity_score 0.
C29_ResultWellFormed ==
  Returned =>
    IF result.is_typosquat
    THEN /\ result.suspected_brand \in BrandNames
         /\ result.technique \in EditDistanceTechniques \cup {"letter_substitution", "homoglyph"}
         /\ result.technique = "letter_substitution" => result.similarity_score = 95
         /\ result.technique = "homoglyph" => result.similarity_score = 90
         /\ result.technique \in EditDistanceTechniques =>
              (result.similarity_score >= 75 /\ result.similarity_score <= 99)
    ELSE /\ result.suspected_brand = None
         /\ result.technique = "None"
         /\ result.similarity_score = 0

\* googe.com: one character of google left out, similarity 83.
C29_Witness ==
  /\ Returned /\ result.is_typosquat
  /\ result.technique = "character_omission"
  /\ result.similarity_score = 83
  /\ result.suspected_brand = <<"g","o","o","g","l","e">>


\* The texts one insertion, deletion or substitution of a character away
\* from s, over the given characters and up to the given length.
OneEdit(s, chars, longest) ==
  {SubSeq(s, 1, i - 1) \o SubSeq(s, i + 1, Len(s)) : i \in 1..Len(s)}
  \cup {[s EXCEPT ![i] = c] : i \in 1..Len(s), c \in chars}
  \cup (IF Len(s) < longest
        THEN {SubSeq(s, 1, i) \o <<c>> \o SubSeq(s, i + 1, Len(s)) : i \in 0..Len(s), c \in chars}
        ELSE {})

\* The least number of edits after which target is among the texts reached.
RECURSIVE EditsNeeded(_, _, _, _, _)
EditsNeeded(reached, target, n, chars, longest) ==
  IF target \in reached THEN n
  ELSE EditsNeeded(reached \cup UNION {OneEdit(s, chars, longest) : s \in reached},
                   target, n + 1, chars, longest)

\* The minimum number of single-character insertions, deletions and
\* substitutions that turn s1 into s2.
EditDistance(s1, s2) ==
  EditsNeeded({s1}, s2, 0, {s1[i] : i \in 1..Len(s1)} \cup {s2[i] : i \in 1..Len(s2)},
              Max2(Len(s1), Len(s2)) + 1)

\* C30: calculate_levenshtein(s1, s2) is the minimum number of
\* single-character insertions, deletions and substitutions that turn s1 into
\* s2; it is symmetric, 0 exactly for equal texts, and the length of the other
\* text when one is empty.
C30_LevenshteinIsEditDistance ==
  HasReturned("calculate_levenshtein") =>
    LET s1 == call.args[1]
        s2 == call.args[2]
    IN /\ returns[1] = EditDistance(s1, s2)
       /\ returns[1] = calculate_levenshtein(s2, s1)
       /\ returns[1] = 0 <=> s1 = s2
       /\ s1 = <<>> => returns[1] = Len(s2)
       /\ s2 = <<>> => returns[1] = Len(s1)

\* 'abab' against 'ba': two deletions, with the shorter text given first so
\* that the function exchanges its arguments.
C30_Witness ==
  /\ HasReturned("calculate_levenshtein")
  /\ call.args = << <<"b","a">>, <<"a","b","a","b">> >>
  /\ returns[1] = 2

====
